---- MODULE Spec2Model ----
(***************************************************************************)
(* A model of the IntImage part of improc.c: image domains, the pixel      *)
(* store behind IntImage.pixels, the checked pixel accessors, and the      *)
(* operations built on them.  Every image variable of a client program is  *)
(* a slot holding an IntImage struct; the struct's pixels field points     *)
(* into a heap of pixel matrices, so that sharing and isolation of         *)
(* storage are visible.  fatalError() ends the process: it is the state    *)
(* fatal = TRUE, from which nothing more happens.                          *)
(***************************************************************************)
EXTENDS Integers, Sequences, FiniteSets, TLC

VARIABLES
  images,   \* slot -> IntImage struct (domain, pixels pointer, minRange, maxRange)
  heap,     \* buffer id -> pixel matrix [y][x], or <<>> when not allocated
  fatal,    \* TRUE once fatalError() was called (exit(EXIT_FAILURE))
  call,     \* the library call executed last: [op, s, args, ret]
  steps,    \* number of library calls made so far (used by the bounded runs)
  histogram \* the client's Histogram struct (frequencies pointer, minRange, maxRange)

vars == <<images, heap, fatal, call, steps, histogram>>

(* ------------------------------ bounds -------------------------------- *)

\* largest number of pixels (width * height) of an image
MaxPixels == 4
\* grey values handed to the setters range over -1 .. MaxGrey
MaxGrey == 2
\* largest number of pixels of an image where two images are at work
MaxSmallPixels == 2
\* most calls made on an image and its copy
MaxOps == 2
\* largest LUTSize handed to applyLutIntImage
MaxLut == 2
\* largest number of pixels of an image a histogram is made of
MaxHistPixels == 3
\* largest number of pixels of an image handed to distanceTransform
MaxDtPixels == 6
\* largest width and height, and largest number of pixels, of an image handed
\* to fft2D or ifft2D
MaxFftLen == 4
MaxFftPixels == 8
\* largest number of pixels of a ComplexImage handed to fft2Dshift
MaxShiftPixels == 6
\* largest number of pixels of an image handed to the dilation and erosion,
\* and largest width and height of their kernel
MaxMorphPixels == 6
MaxKernel == 3
\* largest length of a sequence handed to slidingWindowOrd on its own, and
\* largest window
MaxWindowLen == 4
MaxWindow == 3
\* how many samples past the end of its buffer the PPM writer is followed
MaxOverrun == 2

(* --------------------------- input sets ------------------------------- *)

Slots == {"img", "c", "h"}
BufIds == 1..Cardinality(Slots)
\* what malloc'ed, never written memory may hold
Garbage == {0, 1}
GreyValues == -1..MaxGrey
\* <<minRange, maxRange>> pairs handed to the allocators and setDynamicRange
Ranges == {<<0, 1>>, <<1, 1>>, <<1, 0>>}
\* <<minX, minY>> of the domains handed to allocateIntImageGrid
Origins == {<<0, 0>>, <<-1, 1>>}
\* widths and heights handed to the allocators (non-positive ones included)
Extents == -1..MaxPixels
\* <<width, height>> of the images where two images are at work
SmallShapes ==
  {e \in (1..MaxSmallPixels) \X (1..MaxSmallPixels) : e[1] * e[2] <= MaxSmallPixels}
\* <<minRange, maxRange>> of the first operand of the pixelwise operations
OpRanges == {<<0, 1>>, <<-1, 1>>, <<1, 2>>}
\* shifts handed to translateIntImage
Shifts == {<<1, -2>>}
\* the tables handed to applyLutIntImage: LUTSize entries, indexed from 0
LutValues == {0, 2}
Luts == UNION {[(0..(n - 1)) -> LutValues] : n \in 0..MaxLut}
\* <<width, height>> of the images a histogram is made of
HistShapes ==
  {e \in (1..MaxHistPixels) \X (1..MaxHistPixels) : e[1] * e[2] <= MaxHistPixels}
\* <<width, height>> of the images handed to fft2D and ifft2D
FftShapes ==
  {e \in (1..MaxFftLen) \X (1..MaxFftLen) : e[1] * e[2] <= MaxFftPixels}
\* <<width, height>> and <<minX, minY>> of the images handed to fft2Dshift
ShiftShapes ==
  {e \in (1..MaxShiftPixels) \X (1..MaxShiftPixels) : e[1] * e[2] <= MaxShiftPixels}
ShiftOrigins == Origins \cup {<<-1, 0>>}
\* <<width, height>> and <<minRange, maxRange>> of the images handed to
\* dilateIntImageRect and erodeIntImageRect
MorphShapes ==
  {e \in (1..MaxMorphPixels) \X (1..MaxMorphPixels) : e[1] * e[2] <= MaxMorphPixels}
MorphRanges == {<<0, 1>>, <<0, 0>>}
\* <<width, height>> of the images handed to distanceTransform
DtShapes ==
  {e \in (1..MaxDtPixels) \X (1..MaxDtPixels) : e[1] * e[2] <= MaxDtPixels}
\* a word that is no column or row of any image handed to distanceTransform
FarWord == MaxDtPixels + 1
\* what the reads maskDx[1], maskDy[1] behind the one-entry masks of the
\* vertical phase may yield: a second copy of the offset, the offset of the
\* left neighbour, or two words that point outside every image
MaskJunk == {<<0, -1>>, <<-1, 0>>, <<FarWord, FarWord>>}
\* what the reads s[-1], t[-1] in front of the malloc'ed stacks may yield:
\* a zero word, or a word that is no column of the image
StackJunk == {0, FarWord}
\* <<minRange, maxRange>> of the images a histogram is made of
HistRanges == Ranges \cup OpRanges

(* ------------------------- Image Domain ------------------------------- *)

\* initImageDomain with the test written as < 0: a zero extent slips through
initImageDomainFails_strict(minX, maxX, minY, maxY) ==
  LET width == 1 + maxX - minX
      height == 1 + maxY - minY
  IN (width < 0) \/ (height < 0)

\* improc.c:116 the condition under which initImageDomain calls fatalError
initImageDomainFails(minX, maxX, minY, maxY) ==
  LET width == 1 + maxX - minX
      height == 1 + maxY - minY
  IN (width <= 0) \/ (height <= 0)

initImageDomain(minX, maxX, minY, maxY) ==
  [minX |-> minX, maxX |-> maxX, minY |-> minY, maxY |-> maxY]

getWidth(domain) == 1 + domain.maxX - domain.minX

getHeight(domain) == 1 + domain.maxY - domain.minY

\* TRUE when checkDomain calls fatalError
checkDomain(x, y, minX, maxX, minY, maxY) ==
  (x < minX) \/ (x > maxX) \/ (y < minY) \/ (y > maxY)

\* TRUE when checkDomainI calls fatalError
checkDomainI(x, y, width, height) ==
  (x < 0) \/ (x >= width) \/ (y < 0) \/ (y >= height)

flipDomainHorizontal(domain) ==
  [domain EXCEPT !.minX = -domain.maxX, !.maxX = -domain.minX]

flipDomainVertical(domain) ==
  [domain EXCEPT !.minY = -domain.maxY, !.maxY = -domain.minY]

(* ------------------------------ heap ---------------------------------- *)

\* an image variable that holds no image
NoImage ==
  [domain |-> initImageDomain(0, 0, 0, 0), pixels |-> 0, minRange |-> 0, maxRange |-> 0]

\* a Histogram variable holding no histogram
NoHistogram == [frequencies |-> 0, minRange |-> 0, maxRange |-> 0]

NoCall == [op |-> "none", s |-> "none", args |-> <<>>, ret |-> 0]

Allocated(s) == images[s].pixels # 0

FreeBufs == {b \in BufIds : heap[b] = <<>>}

\* malloc returns some block that is not in use
NewBuf == CHOOSE b \in FreeBufs : \A o \in FreeBufs : b <= o

\* allocIntMatrix: height rows of width ints each, contents not initialised
allocIntMatrix(width, height) ==
  [(0..(height - 1)) -> [(0..(width - 1)) -> Garbage]]

PixelsOf(s) == heap[images[s].pixels]

(* --------------------------- allocation ------------------------------- *)

Called(op, s, args, ret) ==
  call' = [op |-> op, s |-> s, args |-> args, ret |-> ret]

\* IntImage v = allocateIntImageGrid(...): fatal by initImageDomain, else a
\* struct with the given domain and range over a fresh pixel matrix
allocateIntImageGrid(s, minX, maxX, minY, maxY, minValue, maxValue) ==
  /\ ~fatal
  /\ ~Allocated(s)
  /\ FreeBufs # {}
  /\ IF initImageDomainFails(minX, maxX, minY, maxY)
     THEN /\ fatal' = TRUE
          /\ UNCHANGED <<images, heap>>
     ELSE LET domain == initImageDomain(minX, maxX, minY, maxY)
              b == NewBuf
          IN /\ getWidth(domain) * getHeight(domain) <= MaxPixels
             /\ \E m \in allocIntMatrix(getWidth(domain), getHeight(domain)) :
                  heap' = [heap EXCEPT ![b] = m]
             /\ images' = [images EXCEPT ![s] =
                  [domain |-> domain, pixels |-> b,
                   minRange |-> minValue, maxRange |-> maxValue]]
             /\ UNCHANGED fatal

\* allocateIntImage(width, height, ..) is allocateIntImageGrid(0, width-1, 0, height-1, ..)
allocateIntImage(s, width, height, minValue, maxValue) ==
  allocateIntImageGrid(s, 0, width - 1, 0, height - 1, minValue, maxValue)

\* freeIntImage(v), after which the client drops the variable
freeIntImage(s) ==
  /\ ~fatal
  /\ Allocated(s)
  /\ heap' = [heap EXCEPT ![images[s].pixels] = <<>>]
  /\ images' = [images EXCEPT ![s] = NoImage]
  /\ UNCHANGED fatal
  /\ Called("freeIntImage", s, <<>>, 0)

(* ------------------------- pixel accessors ---------------------------- *)

\* the clamp as the warning text announces it: an overflow is stored as maxRange
clampGreyValue_toMax(image, greyValue) ==
  LET g1 == IF greyValue < image.minRange THEN image.minRange ELSE greyValue
  IN IF g1 > image.maxRange THEN image.maxRange ELSE g1

\* improc.c:291-300 (and 316-325, 335-344): the value the setters go on to store
clampGreyValue(image, greyValue) ==
  LET g1 == IF greyValue < image.minRange THEN image.minRange ELSE greyValue
  IN IF g1 > image.maxRange THEN image.maxRange - 1 ELSE g1

\* checked build (FAST not defined)
getIntPixel(s, x, y) ==
  /\ ~fatal
  /\ Allocated(s)
  /\ LET d == images[s].domain
     IN IF checkDomain(x, y, d.minX, d.maxX, d.minY, d.maxY)
        THEN /\ fatal' = TRUE
             /\ Called("getIntPixel", s, <<x, y>>, 0)
        ELSE /\ UNCHANGED fatal
             /\ Called("getIntPixel", s, <<x, y>>, PixelsOf(s)[y - d.minY][x - d.minX])
  /\ UNCHANGED <<images, heap>>

getIntPixelI(s, x, y) ==
  /\ ~fatal
  /\ Allocated(s)
  /\ LET d == images[s].domain
     IN IF checkDomainI(x, y, getWidth(d), getHeight(d))
        THEN /\ fatal' = TRUE
             /\ Called("getIntPixelI", s, <<x, y>>, 0)
        ELSE /\ UNCHANGED fatal
             /\ Called("getIntPixelI", s, <<x, y>>, PixelsOf(s)[y][x])
  /\ UNCHANGED <<images, heap>>

setIntPixel(s, x, y, greyValue) ==
  /\ ~fatal
  /\ Allocated(s)
  /\ LET image == images[s]
         d == image.domain
         g == clampGreyValue(image, greyValue)
     IN IF checkDomain(x, y, d.minX, d.maxX, d.minY, d.maxY)
        THEN /\ fatal' = TRUE
             /\ UNCHANGED heap
        ELSE /\ heap' = [heap EXCEPT ![image.pixels][y - d.minY][x - d.minX] = g]
             /\ UNCHANGED fatal
  /\ UNCHANGED images
  /\ Called("setIntPixel", s, <<x, y, greyValue>>, 0)

\* the matrix after setIntPixelI(&image, x, y, greyValue) on in-range indices
storeIntPixelI(image, m, x, y, greyValue) ==
  [m EXCEPT ![y][x] = clampGreyValue(image, greyValue)]

\* setIntPixelI as the FAST build compiles it: no clamp, no check
setIntPixelI_fast(s, x, y, greyValue) ==
  /\ ~fatal
  /\ Allocated(s)
  /\ heap' = [heap EXCEPT ![images[s].pixels][y][x] = greyValue]
  /\ UNCHANGED <<images, fatal>>
  /\ Called("setIntPixelI", s, <<x, y, greyValue>>, 0)

setIntPixelI(s, x, y, greyValue) ==
  /\ ~fatal
  /\ Allocated(s)
  /\ LET image == images[s]
         d == image.domain
     IN IF checkDomainI(x, y, getWidth(d), getHeight(d))
        THEN /\ fatal' = TRUE
             /\ UNCHANGED heap
        ELSE /\ heap' = [heap EXCEPT ![image.pixels] =
                           storeIntPixelI(image, heap[image.pixels], x, y, greyValue)]
             /\ UNCHANGED fatal
  /\ UNCHANGED images
  /\ Called("setIntPixelI", s, <<x, y, greyValue>>, 0)

\* clamps greyValue itself, then stores it at every index through setIntPixelI
setAllIntPixels(s, greyValue) ==
  /\ ~fatal
  /\ Allocated(s)
  /\ LET image == images[s]
         d == image.domain
         g == clampGreyValue(image, greyValue)
     IN heap' = [heap EXCEPT ![image.pixels] =
                   [y \in 0..(getHeight(d) - 1) |->
                     [x \in 0..(getWidth(d) - 1) |-> clampGreyValue(image, g)]]]
  /\ UNCHANGED <<images, fatal>>
  /\ Called("setAllIntPixels", s, <<greyValue>>, 0)

(* ------------------- range, translation, flips ------------------------ *)

setDynamicRange(s, newMinRange, newMaxRange) ==
  /\ ~fatal
  /\ Allocated(s)
  /\ images' = [images EXCEPT ![s].minRange = newMinRange, ![s].maxRange = newMaxRange]
  /\ UNCHANGED <<heap, fatal>>
  /\ Called("setDynamicRange", s, <<newMinRange, newMaxRange>>, 0)

translateIntImage(s, x, y) ==
  /\ ~fatal
  /\ Allocated(s)
  /\ images' = [images EXCEPT ![s].domain =
                  [minX |-> @.minX + x, maxX |-> @.maxX + x,
                   minY |-> @.minY + y, maxY |-> @.maxY + y]]
  /\ UNCHANGED <<heap, fatal>>
  /\ Called("translateIntImage", s, <<x, y>>, 0)

\* the exchange written as a plain copy: the saved value is never written back
swapPixels_noWriteBack(row, i, j) == [row EXCEPT ![i] = row[j]]

\* improc.c:559-561 (573-575): exchange the entries i and j of a row (column)
swapPixels(row, i, j) == [row EXCEPT ![i] = row[j], ![j] = row[i]]

\* improc.c:558-562: for (x = 0; x <= width / 2; x++) exchange row[x], row[width-x-1]
RECURSIVE flipRowLoop(_, _, _)
flipRowLoop(row, x, width) ==
  IF x <= width \div 2
  THEN flipRowLoop(swapPixels(row, x, width - x - 1), x + 1, width)
  ELSE row

\* improc.c:571-577: for (y = 0; y <= height / 2; y++) exchange, for every x,
\* pixels[y][x] and pixels[height-y-1][x]
RECURSIVE flipColumnLoop(_, _, _)
flipColumnLoop(m, y, height) ==
  IF y <= height \div 2
  THEN flipColumnLoop(swapPixels(m, y, height - y - 1), y + 1, height)
  ELSE m

\* the pixel matrix flipIntImageHorizontal leaves behind
flipPixelsHorizontal(m, width, height) ==
  [y \in 0..(height - 1) |-> flipRowLoop(m[y], 0, width)]

\* the pixel matrix flipIntImageVertical leaves behind
flipPixelsVertical(m, width, height) == flipColumnLoop(m, 0, height)

flipIntImageHorizontal(s) ==
  /\ ~fatal
  /\ Allocated(s)
  /\ LET domain == images[s].domain
     IN heap' = [heap EXCEPT ![images[s].pixels] =
                   flipPixelsHorizontal(@, getWidth(domain), getHeight(domain))]
  /\ images' = [images EXCEPT ![s].domain = flipDomainHorizontal(@)]
  /\ UNCHANGED fatal
  /\ Called("flipIntImageHorizontal", s, <<>>, 0)

flipIntImageVertical(s) ==
  /\ ~fatal
  /\ Allocated(s)
  /\ LET domain == images[s].domain
     IN heap' = [heap EXCEPT ![images[s].pixels] =
                   flipPixelsVertical(@, getWidth(domain), getHeight(domain))]
  /\ images' = [images EXCEPT ![s].domain = flipDomainVertical(@)]
  /\ UNCHANGED fatal
  /\ Called("flipIntImageVertical", s, <<>>, 0)

(* ------------------------------- copy --------------------------------- *)

\* allocateFromIntImage: a struct with image's domain and range over the block b
allocateFromIntImage(image, b) ==
  [domain |-> initImageDomain(image.domain.minX, image.domain.maxX,
                              image.domain.minY, image.domain.maxY),
   pixels |-> b, minRange |-> image.minRange, maxRange |-> image.maxRange]

\* the struct assigned instead of copied: both variables point at one pixel matrix
copyIntImage_shallow(src, dst) ==
  /\ ~fatal
  /\ Allocated(src)
  /\ ~Allocated(dst)
  /\ images' = [images EXCEPT ![dst] = images[src]]
  /\ UNCHANGED <<heap, fatal>>
  /\ Called("copyIntImage", dst, <<src>>, 0)

\* dst = copyIntImage(src): every pixel is read with getIntPixelI and stored in
\* the new image with setIntPixelI
copyIntImage(src, dst) ==
  /\ ~fatal
  /\ Allocated(src)
  /\ ~Allocated(dst)
  /\ FreeBufs # {}
  /\ LET image == images[src]
         copy == allocateFromIntImage(image, NewBuf)
     IN /\ images' = [images EXCEPT ![dst] = copy]
        /\ heap' = [heap EXCEPT ![NewBuf] =
                      [y \in 0..(getHeight(image.domain) - 1) |->
                        [x \in 0..(getWidth(image.domain) - 1) |->
                          clampGreyValue(copy, heap[image.pixels][y][x])]]]
  /\ UNCHANGED fatal
  /\ Called("copyIntImage", dst, <<src>>, 0)

(* ------------------------ pixelwise operations ------------------------ *)

maxOp(a, b) == IF a > b THEN a ELSE b

minOp(a, b) == IF a > b THEN b ELSE a

addOp(a, b) == a + b

subtractOp(a, b) == a - b

multiplyOp(a, b) == a * b

\* the comparison made on the extents only: equal sizes pass whatever the origin
compareDomains_sizeOnly(imageA, imageB) ==
  \/ getWidth(imageA.domain) # getWidth(imageB.domain)
  \/ getHeight(imageA.domain) # getHeight(imageB.domain)

\* TRUE when compareDomains calls fatalError
compareDomains(imageA, imageB) ==
  \/ imageA.domain.minX # imageB.domain.minX
  \/ imageA.domain.maxX # imageB.domain.maxX
  \/ imageA.domain.minY # imageB.domain.minY
  \/ imageA.domain.maxY # imageB.domain.maxY

\* operator(a, b) for a function pointer operator, named by the function it
\* points to
callOperator(operator, a, b) ==
  CASE operator = "maxOp" -> maxOp(a, b)
    [] operator = "minOp" -> minOp(a, b)
    [] operator = "addOp" -> addOp(a, b)
    [] operator = "subtractOp" -> subtractOp(a, b)
    [] operator = "multiplyOp" -> multiplyOp(a, b)

\* the pixel matrix applyFunctionIntImage fills in for result: operator applied
\* to the pixels of mA and mB at every index, stored with setIntPixelI
applyFunctionIntImage(result, mA, mB, operator) ==
  [y \in 0..(getHeight(result.domain) - 1) |->
    [x \in 0..(getWidth(result.domain) - 1) |->
      clampGreyValue(result, callOperator(operator, mA[y][x], mB[y][x]))]]

\* sr = <name>IntImage(sa, sb) for the five operators
combineIntImage(name, operator, sa, sb, sr) ==
  /\ ~fatal
  /\ Allocated(sa)
  /\ Allocated(sb)
  /\ ~Allocated(sr)
  /\ FreeBufs # {}
  /\ IF compareDomains(images[sa], images[sb])
     THEN /\ fatal' = TRUE
          /\ UNCHANGED <<images, heap>>
     ELSE LET result == allocateFromIntImage(images[sa], NewBuf)
          IN /\ images' = [images EXCEPT ![sr] = result]
             /\ heap' = [heap EXCEPT ![NewBuf] =
                           applyFunctionIntImage(result, PixelsOf(sa), PixelsOf(sb), operator)]
             /\ UNCHANGED fatal
  /\ Called(name, sr, <<sa, sb>>, 0)

maxIntImage(sa, sb, sr) == combineIntImage("maxIntImage", "maxOp", sa, sb, sr)

minIntImage(sa, sb, sr) == combineIntImage("minIntImage", "minOp", sa, sb, sr)

addIntImage(sa, sb, sr) == combineIntImage("addIntImage", "addOp", sa, sb, sr)

subtractIntImage(sa, sb, sr) == combineIntImage("subtractIntImage", "subtractOp", sa, sb, sr)

multiplyIntImage(sa, sb, sr) == combineIntImage("multiplyIntImage", "multiplyOp", sa, sb, sr)

\* the values the read LUT[v] may yield: the entry, or, outside the LUTSize
\* entries of the table, whatever lies next to it in memory
lutRead(LUT, LUTSize, v) ==
  IF 0 <= v /\ v < LUTSize THEN {LUT[v]} ELSE Garbage

\* TRUE when applyLutIntImage calls fatalError
applyLutFails(image, LUTSize) ==
  (image.minRange < 0) \/ (image.maxRange > LUTSize)

\* sr = applyLutIntImage(s, LUT, LUTSize); ret records the indices LUT was read at
applyLutIntImage(s, LUT, LUTSize, sr) ==
  /\ ~fatal
  /\ Allocated(s)
  /\ ~Allocated(sr)
  /\ FreeBufs # {}
  /\ IF applyLutFails(images[s], LUTSize)
     THEN /\ fatal' = TRUE
          /\ UNCHANGED <<images, heap>>
          /\ Called("applyLutIntImage", sr, <<s, LUT, LUTSize>>, {})
     ELSE LET resultImg == allocateFromIntImage(images[s], NewBuf)
              m == PixelsOf(s)
              rows == 0..(getHeight(resultImg.domain) - 1)
              cols == 0..(getWidth(resultImg.domain) - 1)
              stored(y, x) == {clampGreyValue(resultImg, val) :
                                 val \in lutRead(LUT, LUTSize, m[y][x])}
          IN /\ images' = [images EXCEPT ![sr] = resultImg]
             /\ \E r \in [rows -> [cols -> UNION {stored(y, x) : y \in rows, x \in cols}]] :
                  /\ \A y \in rows, x \in cols : r[y][x] \in stored(y, x)
                  /\ heap' = [heap EXCEPT ![NewBuf] = r]
             /\ UNCHANGED fatal
             /\ Called("applyLutIntImage", sr, <<s, LUT, LUTSize>>,
                       {m[y][x] : y \in rows, x \in cols})

(* -------------------------- specification ----------------------------- *)

Init ==
  /\ images = [s \in Slots |-> NoImage]
  /\ heap = [b \in BufIds |-> <<>>]
  /\ fatal = FALSE
  /\ call = NoCall
  /\ steps = 0
  /\ histogram = NoHistogram

\* coordinates handed to the domain-relative accessors: every coordinate of the
\* domain, and one coordinate beyond each of its four bounds
Probes(s) ==
  LET d == images[s].domain
  IN ((d.minX..d.maxX) \X (d.minY..d.maxY))
       \cup {<<d.minX - 1, d.minY>>, <<d.maxX + 1, d.minY>>,
             <<d.minX, d.minY - 1>>, <<d.minX, d.maxY + 1>>}

\* the same for the index-relative accessors
ProbesI(s) ==
  LET width == getWidth(images[s].domain)
      height == getHeight(images[s].domain)
  IN ((0..(width - 1)) \X (0..(height - 1)))
       \cup {<<-1, 0>>, <<width, 0>>, <<0, -1>>, <<0, height>>}

AllocGrid ==
  /\ \E o \in Origins, w \in Extents, h \in Extents, r \in Ranges :
       /\ allocateIntImageGrid("img", o[1], o[1] + w - 1, o[2], o[2] + h - 1, r[1], r[2])
       /\ Called("allocateIntImageGrid", "img",
                 <<o[1], o[1] + w - 1, o[2], o[2] + h - 1, r[1], r[2]>>, 0)
  /\ UNCHANGED <<steps, histogram>>

Alloc ==
  /\ \E w \in Extents, h \in Extents, r \in Ranges :
       /\ allocateIntImage("img", w, h, r[1], r[2])
       /\ Called("allocateIntImage", "img", <<w, h, r[1], r[2]>>, 0)
  /\ UNCHANGED <<steps, histogram>>

Free == freeIntImage("img") /\ UNCHANGED <<steps, histogram>>

Set ==
  /\ \E p \in Probes("img"), v \in GreyValues : setIntPixel("img", p[1], p[2], v)
  /\ UNCHANGED <<steps, histogram>>

SetI ==
  /\ \E p \in ProbesI("img"), v \in GreyValues : setIntPixelI("img", p[1], p[2], v)
  /\ UNCHANGED <<steps, histogram>>

SetAll == (\E v \in GreyValues : setAllIntPixels("img", v)) /\ UNCHANGED <<steps, histogram>>

Get == (\E p \in Probes("img") : getIntPixel("img", p[1], p[2])) /\ UNCHANGED <<steps, histogram>>

GetI == (\E p \in ProbesI("img") : getIntPixelI("img", p[1], p[2])) /\ UNCHANGED <<steps, histogram>>

Next ==
  \/ AllocGrid
  \/ Alloc
  \/ Free
  \/ Set
  \/ SetI
  \/ SetAll
  \/ Get
  \/ GetI

Spec == Init /\ [][Next]_vars

(* ----------------- specification of the flips ------------------------- *)

FlipH == flipIntImageHorizontal("img") /\ UNCHANGED <<steps, histogram>>

FlipV == flipIntImageVertical("img") /\ UNCHANGED <<steps, histogram>>

NextFlip ==
  \/ AllocGrid
  \/ FlipH
  \/ FlipV

SpecFlip == Init /\ [][NextFlip]_vars

(* ---------------- specification of copy isolation --------------------- *)

\* an image in slot s over heap block b, on domain origin o and extents e
ImageAt(o, e, r, b) ==
  [domain |-> initImageDomain(o[1], o[1] + e[1] - 1, o[2], o[2] + e[2] - 1),
   pixels |-> b, minRange |-> r[1], maxRange |-> r[2]]

\* one small image, in img, off the origin, with any pixels
InitCopy ==
  /\ \E e \in SmallShapes, r \in Ranges :
       /\ images = [s \in Slots |-> IF s = "img" THEN ImageAt(<<-1, 1>>, e, r, 1) ELSE NoImage]
       /\ \E m \in allocIntMatrix(e[1], e[2]) :
            heap = [b \in BufIds |-> IF b = 1 THEN m ELSE <<>>]
  /\ fatal = FALSE
  /\ call = NoCall
  /\ steps = 0
  /\ histogram = NoHistogram

Tick == steps < MaxOps /\ steps' = steps + 1 /\ UNCHANGED histogram

Pair == {"img", "c"}

Copy == copyIntImage("img", "c") /\ UNCHANGED <<steps, histogram>>

PairSet ==
  /\ Tick
  /\ Allocated("c")
  /\ \E s \in Pair : \E p \in Probes(s), v \in GreyValues : setIntPixel(s, p[1], p[2], v)

PairSetI ==
  /\ Tick
  /\ Allocated("c")
  /\ \E s \in Pair : \E p \in ProbesI(s), v \in GreyValues : setIntPixelI(s, p[1], p[2], v)

PairSetAll ==
  /\ Tick
  /\ Allocated("c")
  /\ \E s \in Pair, v \in GreyValues : setAllIntPixels(s, v)

PairSetRange ==
  /\ Tick
  /\ Allocated("c")
  /\ \E s \in Pair, r \in Ranges : setDynamicRange(s, r[1], r[2])

PairTranslate ==
  /\ Tick
  /\ Allocated("c")
  /\ \E s \in Pair, d \in Shifts : translateIntImage(s, d[1], d[2])

PairFlipH == Tick /\ Allocated("c") /\ \E s \in Pair : flipIntImageHorizontal(s)

PairFlipV == Tick /\ Allocated("c") /\ \E s \in Pair : flipIntImageVertical(s)

NextCopy ==
  \/ Copy
  \/ PairSet
  \/ PairSetI
  \/ PairSetAll
  \/ PairSetRange
  \/ PairTranslate
  \/ PairFlipH
  \/ PairFlipV

SpecCopy == InitCopy /\ [][NextCopy]_vars

(* ------------- specification of the pixelwise operations -------------- *)

\* two small images with any pixels: f in img, g in c
InitOps ==
  /\ \E of \in Origins, ef \in SmallShapes, rf \in OpRanges,
        og \in Origins, eg \in SmallShapes :
       /\ images = [s \in Slots |->
                      IF s = "img" THEN ImageAt(of, ef, rf, 1)
                      ELSE IF s = "c" THEN ImageAt(og, eg, <<0, 1>>, 2)
                      ELSE NoImage]
       /\ \E mf \in allocIntMatrix(ef[1], ef[2]), mg \in allocIntMatrix(eg[1], eg[2]) :
            heap = [b \in BufIds |-> IF b = 1 THEN mf ELSE IF b = 2 THEN mg ELSE <<>>]
  /\ fatal = FALSE
  /\ call = NoCall
  /\ steps = 0
  /\ histogram = NoHistogram

Max == maxIntImage("img", "c", "h") /\ UNCHANGED <<steps, histogram>>

Min == minIntImage("img", "c", "h") /\ UNCHANGED <<steps, histogram>>

Add == addIntImage("img", "c", "h") /\ UNCHANGED <<steps, histogram>>

Subtract == subtractIntImage("img", "c", "h") /\ UNCHANGED <<steps, histogram>>

Multiply == multiplyIntImage("img", "c", "h") /\ UNCHANGED <<steps, histogram>>

ApplyLut ==
  /\ \E LUT \in Luts : applyLutIntImage("img", LUT, Cardinality(DOMAIN LUT), "h")
  /\ UNCHANGED <<steps, histogram>>

FreeResult == freeIntImage("h") /\ UNCHANGED <<steps, histogram>>

NextOps ==
  \/ Max
  \/ Min
  \/ Add
  \/ Subtract
  \/ Multiply
  \/ ApplyLut
  \/ FreeResult

SpecOps == InitOps /\ [][NextOps]_vars

(* ------------------------------ claims -------------------------------- *)

Setters == {"setIntPixel", "setIntPixelI"}
Getters == {"getIntPixel", "getIntPixelI"}

\* the storage index <<xi, yi>> a call of an accessor addresses in image im
IndexOf(c, im) ==
  IF c.op \in {"setIntPixel", "getIntPixel"}
  THEN <<c.args[1] - im.domain.minX, c.args[2] - im.domain.minY>>
  ELSE <<c.args[1], c.args[2]>>

\* the coordinates of call c lie in the domain of image im ([0..width) x [0..height)
\* for the I variants)
InDomain(c, im) ==
  LET i == IndexOf(c, im)
  IN /\ 0 <= i[1] /\ i[1] < getWidth(im.domain)
     /\ 0 <= i[2] /\ i[2] < getHeight(im.domain)

C2_WrittenInRange ==
  LET im == images[call.s]
      InRange(v) == im.minRange <= v /\ v <= im.maxRange
  IN (/\ call.op \in Setters \cup {"setAllIntPixels"}
      /\ ~fatal
      /\ im.minRange <= im.maxRange)
     => IF call.op = "setAllIntPixels"
        THEN \A y \in 0..(getHeight(im.domain) - 1), x \in 0..(getWidth(im.domain) - 1) :
               InRange(PixelsOf(call.s)[y][x])
        ELSE LET i == IndexOf(call, im) IN InRange(PixelsOf(call.s)[i[2]][i[1]])

\* C3: allocateIntImageGrid is fatal exactly when maxX < minX or maxY < minY and
\* otherwise yields the domain with those four bounds, of width maxX - minX + 1
\* and height maxY - minY + 1, both at least 1; allocateIntImage is fatal exactly
\* when width <= 0 or height <= 0 and otherwise yields [0..width-1]x[0..height-1].
C3_AllocDomain ==
  LET a == call.args
      d == images[call.s].domain
  IN /\ call.op = "allocateIntImageGrid" =>
          /\ fatal <=> (a[2] < a[1] \/ a[4] < a[3])
          /\ ~fatal => /\ Allocated(call.s)
                       /\ d = [minX |-> a[1], maxX |-> a[2], minY |-> a[3], maxY |-> a[4]]
                       /\ getWidth(d) = a[2] - a[1] + 1 /\ getWidth(d) >= 1
                       /\ getHeight(d) = a[4] - a[3] + 1 /\ getHeight(d) >= 1
     /\ call.op = "allocateIntImage" =>
          /\ fatal <=> (a[1] <= 0 \/ a[2] <= 0)
          /\ ~fatal => /\ Allocated(call.s)
                       /\ d = [minX |-> 0, maxX |-> a[1] - 1, minY |-> 0, maxY |-> a[2] - 1]

\* allocateIntImageGrid was refused a domain of width 0 and positive height
C3_Witness ==
  /\ call.op = "allocateIntImageGrid"
  /\ fatal
  /\ call.args[2] = call.args[1] - 1
  /\ call.args[4] >= call.args[3]

AfterFlipHorizontal(im, m) ==
  <<[im EXCEPT !.domain = flipDomainHorizontal(@)],
    flipPixelsHorizontal(m, getWidth(im.domain), getHeight(im.domain))>>

AfterFlipVertical(im, m) ==
  <<[im EXCEPT !.domain = flipDomainVertical(@)],
    flipPixelsVertical(m, getWidth(im.domain), getHeight(im.domain))>>

\* C6: flipIntImageHorizontal applied twice to an image, whatever its size and
\* domain, gives back its four domain bounds and every pixel; the same for
\* flipIntImageVertical.
C6_FlipTwiceRestores ==
  Allocated("img") =>
    LET im == images["img"]
        m == PixelsOf("img")
        h1 == AfterFlipHorizontal(im, m)
        v1 == AfterFlipVertical(im, m)
    IN /\ AfterFlipHorizontal(h1[1], h1[2]) = <<im, m>>
       /\ AfterFlipVertical(v1[1], v1[2]) = <<im, m>>

\* flipIntImageHorizontal has run on an image of width 4, off the origin, whose
\* rows are no palindromes
C6_Witness ==
  /\ call.op = "flipIntImageHorizontal"
  /\ getWidth(images["img"].domain) = 4
  /\ images["img"].domain.minX # 0
  /\ PixelsOf("img")[0][0] # PixelsOf("img")[0][3]
  /\ PixelsOf("img")[0][1] # PixelsOf("img")[0][2]

\* C7: flipIntImageHorizontal turns the domain [minX..maxX]x[minY..maxY] into
\* [-maxX..-minX]x[minY..maxY], and the pixel at (x,y) afterwards is the pixel
\* that was at (-x,y) before.
C7_FlipHorizontalMirrors ==
  [][call'.op = "flipIntImageHorizontal"
     => LET d == images[call'.s].domain
            e == images'[call'.s].domain
            b == images[call'.s].pixels
        IN /\ e = [minX |-> -d.maxX, maxX |-> -d.minX, minY |-> d.minY, maxY |-> d.maxY]
           /\ \A x \in e.minX..e.maxX, y \in e.minY..e.maxY :
                heap'[b][y - e.minY][x - e.minX] = heap[b][y - d.minY][(-x) - d.minX]]_vars

Mutators ==
  {"setIntPixel", "setIntPixelI", "setAllIntPixels", "setDynamicRange",
   "translateIntImage", "flipIntImageHorizontal", "flipIntImageVertical"}

\* C5: c = copyIntImage(img) has img's domain and dynamic range and leaves img
\* as it was; from then on a setIntPixel, setIntPixelI, setAllIntPixels,
\* setDynamicRange, translateIntImage or flip of one of the two images leaves
\* the pixels, the domain and the range of the other one unchanged.
C5_CopyIsolated ==
  [][/\ call'.op = "copyIntImage" =>
          /\ images'["c"].domain = images["img"].domain
          /\ images'["c"].minRange = images["img"].minRange
          /\ images'["c"].maxRange = images["img"].maxRange
          /\ images'["img"] = images["img"]
          /\ heap'[images["img"].pixels] = heap[images["img"].pixels]
     /\ (call'.op \in Mutators /\ Allocated("img") /\ Allocated("c")) =>
          \A t \in Pair \ {call'.s} :
            /\ images'[t] = images[t]
            /\ heap'[images[t].pixels] = heap[images[t].pixels]]_vars

\* setAllIntPixels has overwritten the copy, which now differs from the original
C5_Witness ==
  /\ call.op = "setAllIntPixels"
  /\ call.s = "c"
  /\ Allocated("img")
  /\ Allocated("c")
  /\ PixelsOf("c") # PixelsOf("img")

BinaryOps ==
  {"maxIntImage", "minIntImage", "addIntImage", "subtractIntImage", "multiplyIntImage"}

\* C8: each of the five pixelwise operations ends in the fatal-error state,
\* with no result image, when its operands differ in one of the four domain
\* bounds.
C8_DomainMismatchFatal ==
  (call.op \in BinaryOps /\ images["img"].domain # images["c"].domain)
    => (fatal /\ ~Allocated("h"))

\* addIntImage failed on operands of equal width and height but different origin
C8_Witness ==
  /\ call.op = "addIntImage"
  /\ fatal
  /\ getWidth(images["img"].domain) = getWidth(images["c"].domain)
  /\ getHeight(images["img"].domain) = getHeight(images["c"].domain)
  /\ images["img"].domain.minX # images["c"].domain.minX

\* the value the documentation gives a pixel of the result of operation op
Combined(op, a, b) ==
  CASE op = "maxIntImage" -> (IF a > b THEN a ELSE b)
    [] op = "minIntImage" -> (IF a < b THEN a ELSE b)
    [] op = "addIntImage" -> a + b
    [] op = "subtractIntImage" -> a - b
    [] op = "multiplyIntImage" -> a * b

\* C9: on operands f and g of identical domains each of the five operations
\* returns an image over that domain, with f's dynamic range, whose pixel at
\* every index is exactly max, min, f + g, f - g, f * g of the operands' pixels.
C9_CombinesExactly ==
  (call.op \in BinaryOps /\ images["img"].domain = images["c"].domain)
    => /\ ~fatal
       /\ Allocated("h")
       /\ images["h"].domain = images["img"].domain
       /\ images["h"].minRange = images["img"].minRange
       /\ images["h"].maxRange = images["img"].maxRange
       /\ \A y \in 0..(getHeight(images["img"].domain) - 1),
             x \in 0..(getWidth(images["img"].domain) - 1) :
            PixelsOf("h")[y][x] = Combined(call.op, PixelsOf("img")[y][x], PixelsOf("c")[y][x])

\* C10: applyLutIntImage(image, LUT, LUTSize) is fatal exactly when
\* image.minRange < 0 or image.maxRange > LUTSize, and otherwise returns an
\* image with the input's domain and range whose pixel at every index is
\* LUT[v], v being the input pixel there.
C10_LutApplied ==
  call.op = "applyLutIntImage" =>
    LET image == images["img"]
        LUT == call.args[2]
        LUTSize == call.args[3]
    IN /\ fatal <=> (image.minRange < 0 \/ image.maxRange > LUTSize)
       /\ ~fatal =>
            /\ Allocated("h")
            /\ images["h"].domain = image.domain
            /\ images["h"].minRange = image.minRange
            /\ images["h"].maxRange = image.maxRange
            /\ \A y \in 0..(getHeight(image.domain) - 1),
                  x \in 0..(getWidth(image.domain) - 1) :
                 /\ PixelsOf("img")[y][x] \in DOMAIN LUT
                 /\ PixelsOf("h")[y][x] = LUT[PixelsOf("img")[y][x]]

(* ---------------------------- Histogram ------------------------------- *)

\* the test of the three frequency accessors with maxRange left out of the bins
histogramIndexFails_exclusiveMax(hist, x) ==
  (x < hist.minRange) \/ (x >= hist.maxRange)

\* TRUE when get/set/incrementHistogramFrequency call fatalError for x
histogramIndexFails(hist, x) ==
  (x < hist.minRange) \/ (x > hist.maxRange)

\* the loop of createHistogram from pixel k on, in row order: every pixel is
\* read and counted with incrementHistogramFrequency, which may be fatal
RECURSIVE histogramScan(_, _, _, _, _)
histogramScan(image, m, hist, freqs, k) ==
  LET width == getWidth(image.domain)
      height == getHeight(image.domain)
  IN IF k >= width * height
     THEN [fatal |-> FALSE, frequencies |-> freqs]
     ELSE LET val == m[k \div width][k % width]
          IN IF histogramIndexFails(hist, val)
             THEN [fatal |-> TRUE, frequencies |-> freqs]
             ELSE histogramScan(image, m, hist,
                                [freqs EXCEPT ![val - hist.minRange] = @ + 1], k + 1)

\* histogram = createHistogram(s): histSize zeroed bins, then the scan
createHistogram(s) ==
  /\ ~fatal
  /\ Allocated(s)
  /\ histogram.frequencies = 0
  /\ FreeBufs # {}
  /\ LET image == images[s]
         histSize == image.maxRange - image.minRange + 1
         hist == [frequencies |-> NewBuf,
                  minRange |-> image.minRange, maxRange |-> image.maxRange]
         scan == histogramScan(image, PixelsOf(s), hist,
                               [i \in 0..(histSize - 1) |-> 0], 0)
     IN IF scan.fatal
        THEN /\ fatal' = TRUE
             /\ UNCHANGED <<heap, histogram>>
        ELSE /\ heap' = [heap EXCEPT ![NewBuf] = scan.frequencies]
             /\ histogram' = hist
             /\ UNCHANGED fatal
  /\ Called("createHistogram", s, <<>>, 0)
  /\ UNCHANGED images

\* getHistogramFrequency(histogram, x)
getHistogramFrequency(x) ==
  /\ ~fatal
  /\ histogram.frequencies # 0
  /\ IF histogramIndexFails(histogram, x)
     THEN /\ fatal' = TRUE
          /\ Called("getHistogramFrequency", "histogram", <<x>>, 0)
     ELSE /\ UNCHANGED fatal
          /\ Called("getHistogramFrequency", "histogram", <<x>>,
                    heap[histogram.frequencies][x - histogram.minRange])
  /\ UNCHANGED <<images, heap, histogram>>

freeHistogram ==
  /\ ~fatal
  /\ histogram.frequencies # 0
  /\ heap' = [heap EXCEPT ![histogram.frequencies] = <<>>]
  /\ histogram' = NoHistogram
  /\ Called("freeHistogram", "histogram", <<>>, 0)
  /\ UNCHANGED <<images, fatal>>

\* one image, in img, with any pixels, in its range or not
InitHist ==
  /\ \E o \in Origins, e \in HistShapes, r \in HistRanges :
       /\ images = [s \in Slots |-> IF s = "img" THEN ImageAt(o, e, r, 1) ELSE NoImage]
       /\ \E m \in [(0..(e[2] - 1)) -> [(0..(e[1] - 1)) -> GreyValues]] :
            heap = [b \in BufIds |-> IF b = 1 THEN m ELSE <<>>]
  /\ fatal = FALSE
  /\ call = NoCall
  /\ steps = 0
  /\ histogram = NoHistogram

CreateHistogram == createHistogram("img") /\ UNCHANGED steps

GetFrequency ==
  /\ \E x \in (histogram.minRange - 1)..(histogram.maxRange + 1) : getHistogramFrequency(x)
  /\ UNCHANGED steps

FreeHistogram == freeHistogram /\ UNCHANGED steps

NextHist ==
  \/ CreateHistogram
  \/ GetFrequency
  \/ FreeHistogram

SpecHist == InitHist /\ [][NextHist]_vars

\* every pixel of the image in slot s lies in its declared range
PixelsInRange(s) ==
  \A y \in DOMAIN PixelsOf(s) : \A x \in DOMAIN PixelsOf(s)[y] :
    images[s].minRange <= PixelsOf(s)[y][x] /\ PixelsOf(s)[y][x] <= images[s].maxRange

\* the number of pixels of the image in slot s that equal v
PixelCount(s, v) ==
  Cardinality({i \in (0..(getHeight(images[s].domain) - 1)) \X (0..(getWidth(images[s].domain) - 1)) :
                 PixelsOf(s)[i[1]][i[2]] = v})

RECURSIVE SumTo(_, _)
SumTo(f, n) == IF n < 0 THEN 0 ELSE f[n] + SumTo(f, n - 1)

\* C11: for an image whose pixels all lie in [minRange, maxRange],
\* createHistogram succeeds and gives a histogram with that range in which
\* getHistogramFrequency(v) is the number of pixels equal to v for every v
\* of minRange..maxRange, maxRange included; the frequencies sum to
\* width * height.
C11_HistogramCounts ==
  PixelsInRange("img") =>
    /\ call.op = "createHistogram" => (~fatal /\ histogram.frequencies # 0)
    /\ histogram.frequencies # 0 =>
         /\ histogram.minRange = images["img"].minRange
         /\ histogram.maxRange = images["img"].maxRange
         /\ \A v \in histogram.minRange..histogram.maxRange :
              /\ ~histogramIndexFails(histogram, v)
              /\ heap[histogram.frequencies][v - histogram.minRange] = PixelCount("img", v)
         /\ SumTo(heap[histogram.frequencies], histogram.maxRange - histogram.minRange)
              = getWidth(images["img"].domain) * getHeight(images["img"].domain)
    /\ (call.op = "getHistogramFrequency"
        /\ call.args[1] \in histogram.minRange..histogram.maxRange) =>
         (~fatal /\ call.ret = PixelCount("img", call.args[1]))

\* the frequency of maxRange was read from the histogram of an image that
\* holds a pixel equal to maxRange and one that differs
C11_Witness ==
  /\ call.op = "getHistogramFrequency"
  /\ ~fatal
  /\ PixelsInRange("img")
  /\ images["img"].minRange < images["img"].maxRange
  /\ call.args[1] = images["img"].maxRange
  /\ call.ret >= 1
  /\ call.ret < getWidth(images["img"].domain) * getHeight(images["img"].domain)

(* ----------------------- Distance Transforms -------------------------- *)

\* a C array holding the entries of seq, indexed from 0
ArrayOf(seq) == [i \in 0..(Len(seq) - 1) |-> seq[i + 1]]

MinOf(S) == CHOOSE v \in S : \A u \in S : v <= u

\* a[n]; past the last entry of a (or in front of its first) the read yields
\* whatever word lies there
readArray(a, n, junk) == IF n \in DOMAIN a THEN a[n] ELSE junk

\* the loop over the mask for pixel (x, y): the least dt value among the
\* neighbours (x + sign * maskDx[n], y + sign * maskDy[n]) inside the domain,
\* or infinity
maskMinimum(ctx, dt, sign, x, y) ==
  LET d == ctx.domain
      nbs == {<<x + sign * readArray(ctx.maskDx, n, ctx.junk[1]),
                y + sign * readArray(ctx.maskDy, n, ctx.junk[2])>> :
                n \in 0..(ctx.maskLength - 1)}
      inside == {p \in nbs : (d.minX <= p[1]) /\ (p[1] <= d.maxX)
                             /\ (d.minY <= p[2]) /\ (p[2] <= d.maxY)}
  IN MinOf({ctx.infinity} \cup {dt[p[2] - d.minY][p[1] - d.minX] : p \in inside})

\* top-down, left-to-right pass from the k-th pixel on
RECURSIVE maskForwardPass(_, _, _)
maskForwardPass(ctx, dt, k) ==
  LET width == getWidth(ctx.domain)
      height == getHeight(ctx.domain)
      ix == k % width
      iy == k \div width
  IN IF k >= width * height
     THEN dt
     ELSE LET minnb == maskMinimum(ctx, dt, 1, ctx.domain.minX + ix, ctx.domain.minY + iy)
              v == IF ctx.m[iy][ix] # ctx.foreground THEN 0
                   ELSE IF minnb < ctx.infinity THEN 1 + minnb ELSE ctx.infinity
          IN maskForwardPass(ctx, [dt EXCEPT ![iy][ix] = clampGreyValue(ctx.dtImage, v)], k + 1)

\* bottom-up, right-to-left pass from the k-th pixel down
RECURSIVE maskBackwardPass(_, _, _)
maskBackwardPass(ctx, dt, k) ==
  LET width == getWidth(ctx.domain)
      ix == k % width
      iy == k \div width
  IN IF k < 0
     THEN dt
     ELSE LET here == dt[iy][ix]
              minnb == maskMinimum(ctx, dt, -1, ctx.domain.minX + ix, ctx.domain.minY + iy)
              minnb1 == IF minnb < ctx.infinity THEN 1 + minnb ELSE ctx.infinity
              here1 == IF minnb1 < here THEN minnb1 ELSE here
          IN IF here > 0
             THEN maskBackwardPass(ctx, [dt EXCEPT ![iy][ix] = clampGreyValue(ctx.dtImage, here1)], k - 1)
             ELSE maskBackwardPass(ctx, dt, k - 1)

\* the IntImage struct maskDistanceTransform allocates for its result
maskDtImage(im) ==
  [domain |-> im.domain, pixels |-> 0, minRange |-> 0,
   maxRange |-> getWidth(im.domain) + getHeight(im.domain) + 1]

\* the pixels of maskDistanceTransform(maskLength, maskDx, maskDy, foreground, im);
\* m holds the pixels of im, junk what lies behind the masks, fill what the
\* fresh matrix holds before it is written
maskDistanceTransform(maskLength, maskDx, maskDy, foreground, im, m, junk, fill) ==
  LET width == getWidth(im.domain)
      height == getHeight(im.domain)
      ctx == [maskLength |-> maskLength, maskDx |-> maskDx, maskDy |-> maskDy,
              foreground |-> foreground, domain |-> im.domain, m |-> m,
              junk |-> junk, infinity |-> width + height + 1,
              dtImage |-> maskDtImage(im)]
      fresh == [y \in 0..(height - 1) |-> [x \in 0..(width - 1) |-> fill]]
  IN maskBackwardPass(ctx, maskForwardPass(ctx, fresh, 0), width * height - 1)

\* the 4-neighbour transform handed only the first offset of its mask
dt4RosenfeldPfaltz_oneOffset(foreground, im, m, fill) ==
  maskDistanceTransform(1, ArrayOf(<<-1, 0, 0, 0>>), ArrayOf(<<0, -1, 0, 0>>),
                        foreground, im, m, <<0, 0>>, fill)

dt4RosenfeldPfaltz(foreground, im, m, fill) ==
  maskDistanceTransform(2, ArrayOf(<<-1, 0, 0, 0>>), ArrayOf(<<0, -1, 0, 0>>),
                        foreground, im, m, <<0, 0>>, fill)

dt8RosenfeldPfaltz(foreground, im, m, fill) ==
  maskDistanceTransform(4, ArrayOf(<<-1, 0, 1, -1>>), ArrayOf(<<-1, -1, -1, 0>>),
                        foreground, im, m, <<0, 0>>, fill)

\* a / b of C: the quotient truncated towards zero (b > 0)
cDiv(a, b) == IF a >= 0 THEN a \div b ELSE -((-a) \div b)

\* (int) sqrt(n) for n >= 0
intSqrt(n) == CHOOSE r \in 0..n : (r * r <= n) /\ (n < (r + 1) * (r + 1))

\* the int stored for the double 0.5 + sqrt(v): floor(sqrt(v) + 1/2), which
\* is floor((sqrt(4 v) + 1) / 2)
roundedRoot(v) == (intSqrt(4 * v) + 1) \div 2

\* the while loop of the left-to-right scan: pops while the parabola of
\* column x lies below that of s[q] at t[q]; after every pop vsq is read at
\* s[q], through getIntPixel, whatever q has become
RECURSIVE mrhPop(_, _, _, _, _, _, _)
mrhPop(vrow, st, x, vxy, vsq, width, sjunk) ==
  IF (st.q >= 0)
     /\ ((st.t[st.q] - st.s[st.q]) * (st.t[st.q] - st.s[st.q]) + vsq
           > (st.t[st.q] - x) * (st.t[st.q] - x) + vxy)
  THEN LET q1 == st.q - 1
           col == readArray(st.s, q1, sjunk)
           popped == [st EXCEPT !.q = q1, !.indexed = @ \cup {st.q, q1}]
       IN IF checkDomain(col, 0, 0, width - 1, 0, 0)
          THEN [popped EXCEPT !.fatal = TRUE]
          ELSE mrhPop(vrow, popped, x, vxy, vrow[col], width, sjunk)
  ELSE [st EXCEPT !.vsq = vsq, !.indexed = @ \cup (IF st.q >= 0 THEN {st.q} ELSE {})]

\* left-to-right scan of a row from column x on
RECURSIVE mrhScan(_, _, _, _, _)
mrhScan(vrow, st, x, width, sjunk) ==
  IF st.fatal \/ x >= width
  THEN st
  ELSE LET popped == mrhPop(vrow, st, x, vrow[x], vrow[st.s[st.q]], width, sjunk)
           q == popped.q
           w == 1 + cDiv(x * x - popped.s[q] * popped.s[q] + vrow[x] - popped.vsq,
                         2 * (x - popped.s[q]))
       IN IF popped.fatal
          THEN popped
          ELSE IF q < 0
          THEN mrhScan(vrow, [popped EXCEPT !.q = 0, !.s[0] = x], x + 1, width, sjunk)
          ELSE IF w < width
          THEN mrhScan(vrow, [popped EXCEPT !.q = q + 1, !.s[q + 1] = x, !.t[q + 1] = w],
                       x + 1, width, sjunk)
          ELSE mrhScan(vrow, popped, x + 1, width, sjunk)

\* backward scan of a row from column x down; st.row is the row of dt
RECURSIVE mrhBackward(_, _, _, _, _, _, _)
mrhBackward(vrow, st, x, width, takeSquareRoot, dtImage, sjunk) ==
  IF st.fatal \/ x < 0
  THEN st
  ELSE LET sq == readArray(st.s, st.q, sjunk)
           v == (x - sq) * (x - sq) + st.vsq
           stored == clampGreyValue(dtImage, IF takeSquareRoot THEN roundedRoot(v) ELSE v)
           written == [st EXCEPT !.row[x] = stored, !.indexed = @ \cup {st.q}]
           q1 == st.q - 1
           col == readArray(st.s, q1, sjunk)
       IN IF x = readArray(st.t, st.q, sjunk)
          THEN IF checkDomain(col, 0, 0, width - 1, 0, 0)
               THEN [written EXCEPT !.q = q1, !.indexed = @ \cup {q1}, !.fatal = TRUE]
               ELSE mrhBackward(vrow, [written EXCEPT !.q = q1, !.indexed = @ \cup {q1},
                                                      !.vsq = vrow[col]],
                                x - 1, width, takeSquareRoot, dtImage, sjunk)
          ELSE mrhBackward(vrow, written, x - 1, width, takeSquareRoot, dtImage, sjunk)

\* one row of the horizontal phase: [fatal, row, indexed], indexed being the
\* values of q with which s[q] or t[q] was read
mrhRow(vrow, width, takeSquareRoot, dtImage, sjunk, fill) ==
  LET blank == [x \in 0..(width - 1) |-> fill]
      st0 == [q |-> 0, s |-> [blank EXCEPT ![0] = 0], t |-> [blank EXCEPT ![0] = 0],
              vsq |-> 0, row |-> blank, indexed |-> {0}, fatal |-> FALSE]
      scanned == mrhScan(vrow, st0, 1, width, sjunk)
  IN IF scanned.fatal
     THEN scanned
     ELSE mrhBackward(vrow, [scanned EXCEPT !.vsq = vrow[scanned.s[scanned.q]]],
                      width - 1, width, takeSquareRoot, dtImage, sjunk)

\* the mask of the vertical phase: the two arrays and the length handed to
\* maskDistanceTransform with them
verticalMask == [maskLength |-> 2, maskDx |-> ArrayOf(<<0>>), maskDy |-> ArrayOf(<<-1>>)]

\* the indices at which maskDistanceTransform reads maskDx and maskDy: all
\* below maskLength, once there is a foreground pixel
maskReads(maskLength, foreground, m) ==
  IF \E y \in DOMAIN m : \E x \in DOMAIN m[y] : m[y][x] = foreground
  THEN 0..(maskLength - 1) ELSE {}

\* dtMeijsterRoerdinkHesselink(takeSquareRoot, foreground, im): [fatal, pixels]
\* and, of its two phases, the mask entries read, the vertical distances
\* and the stack indices used
dtMeijsterRoerdinkHesselink(takeSquareRoot, foreground, im, m, junk, sjunk, fill) ==
  LET width == getWidth(im.domain)
      height == getHeight(im.domain)
      infinity == width * width + height * height
      im0 == [im EXCEPT !.domain = initImageDomain(0, width - 1, 0, height - 1)]
      verticalDT == maskDistanceTransform(verticalMask.maskLength, verticalMask.maskDx,
                                          verticalMask.maskDy, foreground, im0, m, junk, fill)
      dtImage == [domain |-> im0.domain, pixels |-> 0,
                  minRange |-> 0, maxRange |-> infinity]
      vdt == [y \in 0..(height - 1) |-> [x \in 0..(width - 1) |->
                clampGreyValue(dtImage,
                  IF verticalDT[y][x] < height
                  THEN verticalDT[y][x] * verticalDT[y][x] ELSE infinity)]]
      rows == [y \in 0..(height - 1) |->
                 mrhRow(vdt[y], width, takeSquareRoot, dtImage, sjunk, fill)]
  IN [fatal |-> \E y \in 0..(height - 1) : rows[y].fatal,
      pixels |-> [y \in 0..(height - 1) |-> rows[y].row],
      maskReads |-> maskReads(verticalMask.maskLength, foreground, m),
      verticalDT |-> verticalDT,
      indexed |-> UNION {rows[y].indexed : y \in 0..(height - 1)}]

Metrics == {"MANHATTAN", "CHESSBOARD", "EUCLID", "SQEUCLID"}

\* the struct of the image distanceTransform returns, before its pixels are set
dtResultImage(im, metric) ==
  IF metric \in {"MANHATTAN", "CHESSBOARD"}
  THEN maskDtImage(im)
  ELSE [domain |-> im.domain, pixels |-> 0, minRange |-> 0,
        maxRange |-> getWidth(im.domain) * getWidth(im.domain)
                     + getHeight(im.domain) * getHeight(im.domain)]

\* the switch of distanceTransform: [fatal, pixels]
dtOutcome(im, m, metric, foreground, junk, sjunk, fill) ==
  CASE metric = "MANHATTAN" ->
         [fatal |-> FALSE, pixels |-> dt4RosenfeldPfaltz(foreground, im, m, fill),
          maskReads |-> maskReads(2, foreground, m), verticalDT |-> <<>>, indexed |-> {}]
    [] metric = "CHESSBOARD" ->
         [fatal |-> FALSE, pixels |-> dt8RosenfeldPfaltz(foreground, im, m, fill),
          maskReads |-> maskReads(4, foreground, m), verticalDT |-> <<>>, indexed |-> {}]
    [] metric = "EUCLID" ->
         dtMeijsterRoerdinkHesselink(TRUE, foreground, im, m, junk, sjunk, fill)
    [] metric = "SQEUCLID" ->
         dtMeijsterRoerdinkHesselink(FALSE, foreground, im, m, junk, sjunk, fill)
    [] OTHER -> [fatal |-> TRUE, pixels |-> <<>>,
                 maskReads |-> {}, verticalDT |-> <<>>, indexed |-> {}]

\* every outcome distanceTransform may have on image im with pixels m
dtOutcomes(im, m, metric, foreground) ==
  {dtOutcome(im, m, metric, foreground, junk, sjunk, fill) :
     junk \in MaskJunk, sjunk \in StackJunk, fill \in Garbage}

\* sr = distanceTransform(s, metric, foreground); ret records what the call
\* read of its masks and stacks and the distances of the vertical phase
distanceTransform(s, metric, foreground, sr) ==
  /\ ~fatal
  /\ Allocated(s)
  /\ ~Allocated(sr)
  /\ FreeBufs # {}
  /\ \E out \in dtOutcomes(images[s], PixelsOf(s), metric, foreground) :
       /\ IF out.fatal
          THEN /\ fatal' = TRUE
               /\ UNCHANGED <<images, heap>>
          ELSE /\ images' = [images EXCEPT ![sr] =
                               [dtResultImage(images[s], metric) EXCEPT !.pixels = NewBuf]]
               /\ heap' = [heap EXCEPT ![NewBuf] = out.pixels]
               /\ UNCHANGED fatal
       /\ Called("distanceTransform", sr, <<s, metric, foreground>>,
                 [maskReads |-> out.maskReads, verticalDT |-> out.verticalDT,
                  indexed |-> out.indexed])
  /\ UNCHANGED histogram

\* one image of foreground and background pixels, in img
InitDt ==
  /\ \E o \in Origins, e \in DtShapes :
       /\ images = [s \in Slots |-> IF s = "img" THEN ImageAt(o, e, <<0, 1>>, 1) ELSE NoImage]
       /\ \E m \in [(0..(e[2] - 1)) -> [(0..(e[1] - 1)) -> {0, 1}]] :
            heap = [b \in BufIds |-> IF b = 1 THEN m ELSE <<>>]
  /\ fatal = FALSE
  /\ call = NoCall
  /\ steps = 0
  /\ histogram = NoHistogram

Manhattan == distanceTransform("img", "MANHATTAN", 1, "h") /\ UNCHANGED steps

Chessboard == distanceTransform("img", "CHESSBOARD", 1, "h") /\ UNCHANGED steps

Euclid == distanceTransform("img", "EUCLID", 1, "h") /\ UNCHANGED steps

SqEuclid == distanceTransform("img", "SQEUCLID", 1, "h") /\ UNCHANGED steps

UnknownMetric == distanceTransform("img", "none", 1, "h") /\ UNCHANGED steps

NextDt ==
  \/ Manhattan
  \/ Chessboard
  \/ Euclid
  \/ SqEuclid
  \/ UnknownMetric

SpecDt == InitDt /\ [][NextDt]_vars

\* the storage indices <<x, y>> of the image in slot s
Indices(s) ==
  (0..(getWidth(images[s].domain) - 1)) \X (0..(getHeight(images[s].domain) - 1))

\* the indices of the pixels of slot s that differ from the foreground value
Background(s, foreground) == {b \in Indices(s) : PixelsOf(s)[b[2]][b[1]] # foreground}

Abs(n) == IF n < 0 THEN -n ELSE n

\* the distance between two pixels dx columns and dy rows apart
Distance(metric, dx, dy) ==
  CASE metric = "MANHATTAN" -> Abs(dx) + Abs(dy)
    [] metric = "CHESSBOARD" -> (IF Abs(dx) > Abs(dy) THEN Abs(dx) ELSE Abs(dy))
    [] metric = "SQEUCLID" -> dx * dx + dy * dy

\* the distance from pixel p of slot s to the nearest background pixel
Nearest(s, foreground, metric, p) ==
  MinOf({Distance(metric, p[1] - b[1], p[2] - b[2]) : b \in Background(s, foreground)})

\* distanceTransform was called last, with this metric, on an image that has
\* a background pixel
Transformed(metric) ==
  /\ call.op = "distanceTransform"
  /\ call.args[2] = metric
  /\ Background("img", call.args[3]) # {}

\* C12: on an image with a background pixel, distanceTransform with MANHATTAN
\* gives every pixel the least |x-bx| + |y-by| over the background pixels,
\* and with CHESSBOARD the least max(|x-bx|, |y-by|); background pixels get 0.
C12_ChamferExact ==
  \A metric \in {"MANHATTAN", "CHESSBOARD"} :
    Transformed(metric) =>
      /\ ~fatal
      /\ Allocated("h")
      /\ \A p \in Indices("img") :
           PixelsOf("h")[p[2]][p[1]] = Nearest("img", call.args[3], metric, p)

\* MANHATTAN gave a pixel the distance 2 where the CHESSBOARD distance is 1
C12_Witness ==
  /\ Transformed("MANHATTAN")
  /\ ~fatal
  /\ \E p \in Indices("img") :
       /\ PixelsOf("h")[p[2]][p[1]] = 2
       /\ Nearest("img", call.args[3], "CHESSBOARD", p) = 1

\* C13: on an image with a background pixel, distanceTransform with SQEUCLID
\* returns at every pixel exactly the least (x-bx)^2 + (y-by)^2 over the
\* background pixels, for every image size, width 1 and height 1 included.
C13_SqEuclidExact ==
  Transformed("SQEUCLID") =>
    /\ ~fatal
    /\ Allocated("h")
    /\ \A p \in Indices("img") :
         PixelsOf("h")[p[2]][p[1]] = Nearest("img", call.args[3], "SQEUCLID", p)

\* C14: on an image with a background pixel, the EUCLID result at every pixel
\* is floor(0.5 + sqrt(d)) for d the SQEUCLID result at that pixel: 0 when
\* d = 0, else the integer r >= 1 with r^2 - r < d <= r^2 + r.
C14_EuclidRounds ==
  Transformed("EUCLID") =>
    /\ ~fatal
    /\ Allocated("h")
    /\ \A o \in dtOutcomes(images["img"], PixelsOf("img"), "SQEUCLID", call.args[3]) :
         /\ ~o.fatal
         /\ \A p \in Indices("img") :
              LET d == o.pixels[p[2]][p[1]]
                  r == PixelsOf("h")[p[2]][p[1]]
              IN IF d = 0 THEN r = 0
                 ELSE (r >= 1) /\ (r * r - r < d) /\ (d <= r * r + r)

\* the image struct im moved so that its domain starts at (0, 0)
ZeroBased(im) ==
  [im EXCEPT !.domain = initImageDomain(0, getWidth(im.domain) - 1,
                                        0, getHeight(im.domain) - 1)]

\* C15: for every metric and every domain, distanceTransform returns an image
\* over the domain of its input whose pixels are those the transform computes
\* for the same pixel data on the 0-based domain.
C15_DomainIndependent ==
  (call.op = "distanceTransform" /\ call.args[2] \in Metrics) =>
    /\ ~fatal
    /\ Allocated("h")
    /\ images["h"].domain = images["img"].domain
    /\ \A o \in dtOutcomes(ZeroBased(images["img"]), PixelsOf("img"),
                           call.args[2], call.args[3]) :
         (~o.fatal) /\ (o.pixels = PixelsOf("h"))

(* --------------------- Fast Fourier Transform ------------------------- *)

\* A double complex is the record [re, im, den, exact]: the number
\* (re + i im) / den, and whether the double holds exactly that number.  A
\* double that is not exact holds a neighbour of it, on either side.

complexOf(re, im) == [re |-> re, im |-> im, den |-> 1, exact |-> TRUE]

isExactZero(a) == a.exact /\ (a.re = 0) /\ (a.im = 0)

\* a + b and a - b, for operands over the same denominator
complexAdd(a, b) ==
  [re |-> a.re + b.re, im |-> a.im + b.im, den |-> a.den, exact |-> a.exact /\ b.exact]

complexSubtract(a, b) ==
  [re |-> a.re - b.re, im |-> a.im - b.im, den |-> a.den, exact |-> a.exact /\ b.exact]

\* a * b: exact for exact operands (small integers over a power of two), and
\* an exact zero whenever an operand is one
complexMultiply(a, b) ==
  [re |-> a.re * b.re - a.im * b.im, im |-> a.re * b.im + a.im * b.re,
   den |-> a.den * b.den,
   exact |-> (a.exact /\ b.exact) \/ isExactZero(a) \/ isExactZero(b)]

\* a / n for a power of two n
complexDivide(a, n) == [a EXCEPT !.den = @ * n]

\* cexp(-2 PI I / length), or cexp(2 PI I / length) for the inverse transform,
\* for the lengths 1, 2 and 4; only cexp(0) would come out exact
rootOfUnity(length, inverse) ==
  CASE length = 1 -> [complexOf(1, 0) EXCEPT !.exact = FALSE]
    [] length = 2 -> [complexOf(-1, 0) EXCEPT !.exact = FALSE]
    [] length = 4 -> [complexOf(0, IF inverse THEN 1 ELSE -1) EXCEPT !.exact = FALSE]

\* the value of x in the i-th round of the merge phase: 1, then x * omega
RECURSIVE twiddle(_, _)
twiddle(omega, i) ==
  IF i = 0 THEN complexOf(1, 0) ELSE complexMultiply(twiddle(omega, i - 1), omega)

RECURSIVE inplaceCooleyTukeyFFT1D(_, _, _)
inplaceCooleyTukeyFFT1D(length, a, omega) ==
  IF length < 2
  THEN a
  ELSE LET half == length \div 2
           even == inplaceCooleyTukeyFFT1D(half, [i \in 0..(half - 1) |-> a[2 * i]],
                                           complexMultiply(omega, omega))
           odd == inplaceCooleyTukeyFFT1D(half, [i \in 0..(half - 1) |-> a[2 * i + 1]],
                                          complexMultiply(omega, omega))
           h(i) == complexMultiply(twiddle(omega, i), odd[i])
       IN [i \in 0..(length - 1) |->
             IF i < half THEN complexAdd(even[i], h(i))
             ELSE complexSubtract(even[i - half], h(i - half))]

inplaceFFT1D(length, x) ==
  inplaceCooleyTukeyFFT1D(length, x, rootOfUnity(length, FALSE))

inplaceInverseFFT1D(length, x) ==
  LET y == inplaceCooleyTukeyFFT1D(length, x, rootOfUnity(length, TRUE))
  IN [i \in 0..(length - 1) |-> complexDivide(y[i], length)]

\* the loop of isPowerOfTwo: n is halved while it is even (n >= 1)
RECURSIVE halveWhileEven(_)
halveWhileEven(n) == IF n % 2 = 0 THEN halveWhileEven(n \div 2) ELSE n

\* isPowerOfTwo with the powers of two taken to start at 2
isPowerOfTwo_fromTwo(n) == IF n < 2 THEN 0 ELSE IF halveWhileEven(n) = 1 THEN 1 ELSE 0

isPowerOfTwo(n) == IF n < 1 THEN 0 ELSE IF halveWhileEven(n) = 1 THEN 1 ELSE 0

\* TRUE when fft2D and ifft2D call fatalError
fftSizeFails(domain) ==
  ~((isPowerOfTwo(getWidth(domain)) # 0) /\ (isPowerOfTwo(getHeight(domain)) # 0))

\* the pixels of fft2D(image): a 1D transform of every column, then of every row
fft2DPixels(m, width, height) ==
  LET column(x) == inplaceFFT1D(height, [y \in 0..(height - 1) |-> complexOf(m[y][x], 0)])
      ft == [y \in 0..(height - 1) |-> [x \in 0..(width - 1) |-> column(x)[y]]]
  IN [y \in 0..(height - 1) |-> inplaceFFT1D(width, ft[y])]

\* the doubles ifft2D converts to int: an inverse transform of every row of a
\* copy, then of every column
ifft2DValues(m, width, height) ==
  LET ift == [y \in 0..(height - 1) |-> inplaceInverseFFT1D(width, m[y])]
      column(x) == inplaceInverseFFT1D(height, [y \in 0..(height - 1) |-> ift[y][x]])
  IN [y \in 0..(height - 1) |-> [x \in 0..(width - 1) |-> column(x)[y]]]

\* the conversion (int) a: the real part with its fraction cut off; a double
\* that is not exact and lies next to an integer k may lie on either side of k
intOfComplex(a) ==
  LET k == cDiv(a.re, a.den)
  IN IF a.exact \/ (a.re % a.den # 0) \/ (k = 0) THEN {k}
     ELSE IF k > 0 THEN {k - 1, k} ELSE {k, k + 1}

INT_MAX == 2147483647
INT_MIN == -INT_MAX - 1

\* sr = fft2D(s)
fft2D(s, sr) ==
  /\ ~fatal
  /\ Allocated(s)
  /\ ~Allocated(sr)
  /\ FreeBufs # {}
  /\ LET domain == images[s].domain
     IN IF fftSizeFails(domain)
        THEN /\ fatal' = TRUE
             /\ UNCHANGED <<images, heap>>
        ELSE /\ images' = [images EXCEPT ![sr] = [domain |-> domain, pixels |-> NewBuf]]
             /\ heap' = [heap EXCEPT ![NewBuf] =
                           fft2DPixels(PixelsOf(s), getWidth(domain), getHeight(domain))]
             /\ UNCHANGED fatal
  /\ Called("fft2D", sr, <<s>>, 0)
  /\ UNCHANGED histogram

\* sr = ifft2D(s)
ifft2D(s, sr) ==
  /\ ~fatal
  /\ Allocated(s)
  /\ ~Allocated(sr)
  /\ FreeBufs # {}
  /\ LET domain == images[s].domain
         rows == 0..(getHeight(domain) - 1)
         cols == 0..(getWidth(domain) - 1)
         im == [domain |-> domain, pixels |-> NewBuf,
                minRange |-> INT_MIN, maxRange |-> INT_MAX]
         values == ifft2DValues(PixelsOf(s), getWidth(domain), getHeight(domain))
         stored(y, x) == {clampGreyValue(im, v) : v \in intOfComplex(values[y][x])}
     IN IF fftSizeFails(domain)
        THEN /\ fatal' = TRUE
             /\ UNCHANGED <<images, heap>>
        ELSE /\ images' = [images EXCEPT ![sr] = im]
             /\ \E r \in [rows -> [cols -> UNION {stored(y, x) : y \in rows, x \in cols}]] :
                  /\ \A y \in rows, x \in cols : r[y][x] \in stored(y, x)
                  /\ heap' = [heap EXCEPT ![NewBuf] = r]
             /\ UNCHANGED fatal
  /\ Called("ifft2D", sr, <<s>>, 0)
  /\ UNCHANGED histogram

\* the client holds an IntImage in img, or a ComplexImage in c whose pixels
\* were all set to one real value
InitFft ==
  /\ \E o \in Origins, e \in FftShapes :
       \/ /\ images = [s \in Slots |-> IF s = "img" THEN ImageAt(o, e, <<0, 1>>, 1) ELSE NoImage]
          /\ \E m \in [(0..(e[2] - 1)) -> [(0..(e[1] - 1)) -> {0, 1}]] :
               heap = [b \in BufIds |-> IF b = 1 THEN m ELSE <<>>]
       \/ /\ images = [s \in Slots |->
                         IF s = "c"
                         THEN [domain |-> initImageDomain(o[1], o[1] + e[1] - 1,
                                                          o[2], o[2] + e[2] - 1),
                               pixels |-> 1]
                         ELSE NoImage]
          /\ \E v \in {0, 1} :
               heap = [b \in BufIds |->
                         IF b = 1
                         THEN [y \in 0..(e[2] - 1) |-> [x \in 0..(e[1] - 1) |-> complexOf(v, 0)]]
                         ELSE <<>>]
  /\ fatal = FALSE
  /\ call = NoCall
  /\ steps = 0
  /\ histogram = NoHistogram

Fft2D == fft2D("img", "c") /\ UNCHANGED steps

Ifft2D == ifft2D("c", "h") /\ UNCHANGED steps

NextFft ==
  \/ Fft2D
  \/ Ifft2D

SpecFft == InitFft /\ [][NextFft]_vars

\* n = 2^k for some k >= 0
IsPowerOfTwo(n) == \E k \in 0..n : 2^k = n

\* C16: fft2D and ifft2D are fatal exactly when the width or the height of
\* the image is no power of two, 1 counting as one; isPowerOfTwo returns for
\* every n, and returns 0 for every n <= 0.
C16_PowerOfTwoOnly ==
  /\ call.op \in {"fft2D", "ifft2D"} =>
       LET domain == images[call.args[1]].domain
       IN fatal <=> ~(IsPowerOfTwo(getWidth(domain)) /\ IsPowerOfTwo(getHeight(domain)))
  /\ \A n \in (-MaxFftPixels)..(2 * MaxFftPixels) :
       /\ isPowerOfTwo(n) \in {0, 1}
       /\ (n <= 0) => (isPowerOfTwo(n) = 0)
       /\ (n >= 1) => ((isPowerOfTwo(n) = 1) <=> IsPowerOfTwo(n))

\* ifft2D went through on a ComplexImage of one column, off the origin
C16_Witness ==
  /\ call.op = "ifft2D"
  /\ ~fatal
  /\ Allocated("h")
  /\ getWidth(images["c"].domain) = 1
  /\ getHeight(images["c"].domain) > 1
  /\ images["c"].domain.minX # 0

\* C17: for an integer image whose width and height are powers of two,
\* ifft2D(fft2D(image)) has the domain of image and the same integer value at
\* every pixel.
C17_RoundTrip ==
  (call.op = "ifft2D" /\ Allocated("img") /\ ~fatal) =>
    /\ images["h"].domain = images["img"].domain
    /\ PixelsOf("h") = PixelsOf("img")

(* ---------------------------- fft2Dshift ------------------------------ *)

\* swapComplexPixels(image, x1, y1, x2, y2) on the pixels m: the two reads go
\* through getComplexPixel, which takes coordinates of the domain
swapComplexPixels(domain, m, x1, y1, x2, y2) ==
  IF checkDomain(x1, y1, domain.minX, domain.maxX, domain.minY, domain.maxY)
     \/ checkDomain(x2, y2, domain.minX, domain.maxX, domain.minY, domain.maxY)
  THEN [fatal |-> TRUE, pixels |-> m]
  ELSE LET val1 == m[y1 - domain.minY][x1 - domain.minX]
           val2 == m[y2 - domain.minY][x2 - domain.minX]
           m1 == [m EXCEPT ![y1 - domain.minY][x1 - domain.minX] = val2]
       IN [fatal |-> FALSE,
           pixels |-> [m1 EXCEPT ![y2 - domain.minY][x2 - domain.minX] = val1]]

\* the loops of fft2Dshift from round k on, round k being y = k / w2, x = k % w2
RECURSIVE fft2DshiftLoop(_, _, _, _, _)
fft2DshiftLoop(domain, m, k, w2, h2) ==
  IF k >= w2 * h2
  THEN [fatal |-> FALSE, pixels |-> m]
  ELSE LET x == k % w2
           y == k \div w2
           first == swapComplexPixels(domain, m, x, y, x + w2, y + h2)
           second == swapComplexPixels(domain, first.pixels, x + w2, y, x, y + h2)
       IN IF first.fatal THEN first
          ELSE IF second.fatal THEN second
          ELSE fft2DshiftLoop(domain, second.pixels, k + 1, w2, h2)

\* what fft2Dshift makes of the pixels m of an image over domain: [fatal, pixels]
fft2DshiftOutcome(domain, m) ==
  fft2DshiftLoop(domain, m, 0, getWidth(domain) \div 2, getHeight(domain) \div 2)

\* fft2Dshift(&s), and ifft2Dshift(&s), which calls it
shiftComplexImage(name, s) ==
  /\ ~fatal
  /\ Allocated(s)
  /\ LET out == fft2DshiftOutcome(images[s].domain, PixelsOf(s))
     IN /\ fatal' = out.fatal
        /\ heap' = [heap EXCEPT ![images[s].pixels] = out.pixels]
  /\ Called(name, s, <<>>, 0)
  /\ UNCHANGED <<images, histogram>>

fft2Dshift(s) == shiftComplexImage("fft2Dshift", s)

ifft2Dshift(s) == shiftComplexImage("ifft2Dshift", s)

\* one ComplexImage, in c, with any real pixels
InitShift ==
  /\ \E o \in ShiftOrigins, e \in ShiftShapes :
       /\ images = [s \in Slots |->
                      IF s = "c"
                      THEN [domain |-> initImageDomain(o[1], o[1] + e[1] - 1,
                                                       o[2], o[2] + e[2] - 1),
                            pixels |-> 1]
                      ELSE NoImage]
       /\ \E m \in [(0..(e[2] - 1)) -> [(0..(e[1] - 1)) -> {complexOf(0, 0), complexOf(1, 0)}]] :
            heap = [b \in BufIds |-> IF b = 1 THEN m ELSE <<>>]
  /\ fatal = FALSE
  /\ call = NoCall
  /\ steps = 0
  /\ histogram = NoHistogram

Fft2Dshift == fft2Dshift("c") /\ UNCHANGED steps

Ifft2Dshift == ifft2Dshift("c") /\ UNCHANGED steps

NextShift ==
  \/ Fft2Dshift
  \/ Ifft2Dshift

SpecShift == InitShift /\ [][NextShift]_vars

\* C18: on a ComplexImage of any width, height and domain, fft2Dshift twice,
\* or fft2Dshift then ifft2Dshift, runs without a fatal error and leaves every
\* pixel and the domain as they were.
C18_ShiftTwiceRestores ==
  call.op \in {"fft2Dshift", "ifft2Dshift"} =>
    /\ ~fatal
    /\ LET domain == images["c"].domain
           once == fft2DshiftOutcome(domain, PixelsOf("c"))
           twice == fft2DshiftOutcome(domain, once.pixels)
       IN (~once.fatal) /\ (~twice.fatal) /\ (twice.pixels = PixelsOf("c"))

\* C19: on a ComplexImage of even width w and even height h, whatever its
\* domain, fft2Dshift puts at every index (x, y) the value that was at
\* ((x + w/2) mod w, (y + h/2) mod h), and leaves the domain as it was.
C19_ShiftCentres ==
  [][(/\ call'.op = "fft2Dshift"
      /\ getWidth(images["c"].domain) % 2 = 0
      /\ getHeight(images["c"].domain) % 2 = 0)
     => LET w == getWidth(images["c"].domain)
            h == getHeight(images["c"].domain)
            b == images["c"].pixels
        IN /\ ~fatal'
           /\ images' = images
           /\ \A x \in 0..(w - 1), y \in 0..(h - 1) :
                heap'[b][y][x] = heap[b][(y + h \div 2) % h][(x + w \div 2) % w]]_vars

(* ----------------------- dilation and erosion ------------------------- *)

\* The pixels of an IntImage lie in one block, row after row: pixels[0] is
\* the array of width * height ints indexed here from 0.

flatPixels(m, width, height) ==
  [k \in 0..(width * height - 1) |-> m[k \div width][k % width]]

matrixPixels(a, width, height) ==
  [y \in 0..(height - 1) |-> [x \in 0..(width - 1) |-> a[y * width + x]]]

quackIsEmpty(quack) == quack.size = 0

quackPeekBack_front(quack) == quack.buffer[quack.start]

quackPeekBack(quack) ==
  quack.buffer[(quack.end + quack.capacity - 1) % quack.capacity]

quackPopBack(quack) ==
  [quack EXCEPT !.end = (quack.end + quack.capacity - 1) % quack.capacity,
                !.size = quack.size - 1]

\* TRUE when quackPushBack calls fatalError
quackIsFull(quack) == quack.size >= quack.capacity

quackPushBack(quack, value) ==
  [quack EXCEPT !.buffer[quack.end] = value,
                !.end = (quack.end + 1) % quack.capacity,
                !.size = quack.size + 1]

quackPeekFront(quack) == quack.buffer[quack.start]

quackPopFront_keepStart(quack) == [quack EXCEPT !.size = quack.size - 1]

quackPopFront(quack) ==
  [quack EXCEPT !.start = (quack.start + 1) % quack.capacity,
                !.size = quack.size - 1]

createNewQuackWithMemory(capacity, junk) ==
  [buffer |-> [i \in 0..(capacity - 1) |-> junk],
   start |-> 0, end |-> 0, size |-> 0, capacity |-> capacity]

\* st with the call of the quack function op noted in its log, together
\* with the quack the function is handed
logged(st, op) == [st EXCEPT !.quackLog = @ \cup {[op |-> op, quack |-> st.quack]}]

\* first while loop of slidingWindowOrd: drop the indices that left the window
RECURSIVE dropFront(_, _, _)
dropFront(st, i, w) ==
  IF quackIsEmpty(st.quack)
  THEN st
  ELSE IF quackPeekFront(st.quack) <= i - w
       THEN dropFront([logged(logged(st, "quackPeekFront"), "quackPopFront")
                         EXCEPT !.quack = quackPopFront(@)], i, w)
       ELSE logged(st, "quackPeekFront")

\* second while loop: drop from the back the indices whose value the current
\* one makes insignificant; junk is what a read outside img yields
RECURSIVE dropBack(_, _, _, _, _, _, _)
dropBack(st, img, i, ord, offset, start, junk) ==
  IF quackIsEmpty(st.quack)
  THEN st
  ELSE LET back == quackPeekBack(st.quack) * offset + start
           here == i * offset + start
           seen == [logged(st, "quackPeekBack") EXCEPT !.accessed = @ \cup {back, here}]
           lessEq == IF readArray(img, back, junk) <= readArray(img, here, junk) THEN 1 ELSE 0
       IN IF lessEq = ord
          THEN dropBack([logged(seen, "quackPopBack") EXCEPT !.quack = quackPopBack(@)],
                        img, i, ord, offset, start, junk)
          ELSE seen

\* the for loop of slidingWindowOrd from element i on; st holds the quack,
\* the array out, the indices of img and out that were read or written, the
\* calls of the quack functions, and whether fatalError was called.  A write outside out is kept as an index
\* only: the memory it changes is not part of the image.
RECURSIVE slidingWindowLoop(_, _, _, _, _, _, _, _, _)
slidingWindowLoop(st, img, i, n, w, ord, offset, start, junk) ==
  IF st.fatal \/ i >= n
  THEN st
  ELSE LET dropped == logged(dropBack(dropFront(st, i, w), img, i, ord, offset, start, junk),
                             "quackPushBack")
           pushed == logged([dropped EXCEPT !.quack = quackPushBack(@, i)], "quackPeekFront")
           from == quackPeekFront(pushed.quack) * offset + start
           to == i * offset + start
           written == [pushed EXCEPT
                         !.out = IF to \in DOMAIN @
                                 THEN [@ EXCEPT ![to] = readArray(img, from, junk)] ELSE @,
                         !.accessed = @ \cup {from, to}]
       IN IF quackIsFull(dropped.quack)
          THEN [dropped EXCEPT !.fatal = TRUE]
          ELSE slidingWindowLoop(written, img, i + 1, n, w, ord, offset, start, junk)

slidingWindowOrd(st, img, n, w, ord, offset, start, junk) ==
  slidingWindowLoop([st EXCEPT !.quack = createNewQuackWithMemory(w, junk)],
                    img, 0, n, w, ord, offset, start, junk)

\* the loop over the rows, from row on
RECURSIVE rowPass(_, _, _, _, _, _, _, _)
rowPass(st, img, row, width, height, kw, flag, junk) ==
  IF st.fatal \/ row >= height
  THEN st
  ELSE rowPass(slidingWindowOrd(st, img, width, kw, flag, 1, row * width, junk),
               img, row + 1, width, height, kw, flag, junk)

\* the loop over the columns, from col on
RECURSIVE columnPass(_, _, _, _, _, _, _, _)
columnPass(st, copy, col, width, height, kh, flag, junk) ==
  IF st.fatal \/ col >= width
  THEN st
  ELSE columnPass(slidingWindowOrd(st, copy, height, kh, flag, height, col, junk),
                  copy, col + 1, width, height, kh, flag, junk)

\* dilateErodeIntImageRect(image, kw, kh, flag) on the pixels m of image:
\* [out, accessed, fatal]; junk is what fresh and foreign memory holds
dilateErodeIntImageRect(image, m, kw, kh, flag, junk) ==
  LET width == getWidth(image.domain)
      height == getHeight(image.domain)
      st0 == [quack |-> createNewQuackWithMemory(0, junk),
              out |-> [k \in 0..(width * height - 1) |-> junk],
              accessed |-> {}, quackLog |-> {}, fatal |-> FALSE]
      rows == rowPass(st0, flatPixels(m, width, height), 0, width, height, kw, flag, junk)
      copy == [k \in 0..(width * height - 1) |-> clampGreyValue(image, rows.out[k])]
  IN columnPass(rows, copy, 0, width, height, kh, flag, junk)

\* TRUE when the call wrote or read outside the pixel arrays of image
overran(image, done) ==
  ~(done.accessed \subseteq 0..(getWidth(image.domain) * getHeight(image.domain) - 1))

\* sr = dilateIntImageRect(s, kw, kh) for flag = 1, erodeIntImageRect for flag = 0;
\* ret records the indices of the pixel arrays that were read or written.
\* A call that wrote outside the arrays has damaged the heap: it returns
\* its result or the process is ended when the blocks are freed.
dilateErode(name, flag, s, kw, kh, sr) ==
  /\ ~fatal
  /\ Allocated(s)
  /\ ~Allocated(sr)
  /\ FreeBufs # {}
  /\ \E junk \in Garbage, ended \in BOOLEAN :
       LET image == images[s]
           done == dilateErodeIntImageRect(image, PixelsOf(s), kw, kh, flag, junk)
       IN /\ ended => overran(image, done)
          /\ IF done.fatal \/ ended
             THEN /\ fatal' = TRUE
                  /\ UNCHANGED <<images, heap>>
             ELSE /\ images' = [images EXCEPT ![sr] = [image EXCEPT !.pixels = NewBuf]]
                  /\ heap' = [heap EXCEPT ![NewBuf] =
                                matrixPixels(done.out, getWidth(image.domain),
                                             getHeight(image.domain))]
                  /\ UNCHANGED fatal
          /\ Called(name, sr, <<s, kw, kh>>, done.accessed)
  /\ UNCHANGED histogram

dilateIntImageRect(s, kw, kh, sr) == dilateErode("dilateIntImageRect", 1, s, kw, kh, sr)

erodeIntImageRect(s, kw, kh, sr) == dilateErode("erodeIntImageRect", 0, s, kw, kh, sr)

\* one image, in img, with any pixels
InitMorph ==
  /\ \E e \in MorphShapes, r \in MorphRanges :
       /\ images = [s \in Slots |-> IF s = "img" THEN ImageAt(<<-1, 1>>, e, r, 1) ELSE NoImage]
       /\ \E m \in [(0..(e[2] - 1)) -> [(0..(e[1] - 1)) -> {0, 1}]] :
            heap = [b \in BufIds |-> IF b = 1 THEN m ELSE <<>>]
  /\ fatal = FALSE
  /\ call = NoCall
  /\ steps = 0
  /\ histogram = NoHistogram

Dilate ==
  /\ \E kw \in 1..MaxKernel, kh \in 1..MaxKernel : dilateIntImageRect("img", kw, kh, "h")
  /\ UNCHANGED steps

Erode ==
  /\ \E kw \in 1..MaxKernel, kh \in 1..MaxKernel : erodeIntImageRect("img", kw, kh, "h")
  /\ UNCHANGED steps

NextMorph ==
  \/ Dilate
  \/ Erode
  \/ FreeResult

SpecMorph == InitMorph /\ [][NextMorph]_vars

\* C20: for an IntImage of any width and height, dilateIntImageRect(image, 1, 1)
\* and erodeIntImageRect(image, 1, 1) return an image with the domain, the
\* dynamic range and the pixels of image, and every read and write they make
\* stays inside the width * height pixel arrays.
C20_UnitKernelIdentity ==
  (/\ call.op \in {"dilateIntImageRect", "erodeIntImageRect"}
   /\ call.args[2] = 1
   /\ call.args[3] = 1)
    => /\ ~fatal
       /\ images["h"].domain = images["img"].domain
       /\ images["h"].minRange = images["img"].minRange
       /\ images["h"].maxRange = images["img"].maxRange
       /\ PixelsOf("h") = PixelsOf("img")
       /\ call.ret \subseteq
            0..(getWidth(images["img"].domain) * getHeight(images["img"].domain) - 1)

\* storage coordinates <<x, y>> of the pixels of the image in slot s
Cells(s) ==
  (0..(getWidth(images[s].domain) - 1)) \X (0..(getHeight(images[s].domain) - 1))

(* ------------------- slidingWindowOrd on one sequence ------------------ *)

\* slidingWindowOrd(img, out, n, w, ord, 1, 0, workspace) on the n pixels of
\* the one-row image in slot s, out being the pixels of the fresh image sr;
\* ret records the calls of the quack functions
slidingWindow(name, ord, s, w, sr) ==
  /\ ~fatal
  /\ Allocated(s)
  /\ ~Allocated(sr)
  /\ FreeBufs # {}
  /\ \E junk \in Garbage :
       LET image == images[s]
           n == getWidth(image.domain)
           st0 == [quack |-> createNewQuackWithMemory(0, junk),
                   out |-> [k \in 0..(n - 1) |-> junk],
                   accessed |-> {}, quackLog |-> {}, fatal |-> FALSE]
           done == slidingWindowOrd(st0, flatPixels(PixelsOf(s), n, 1), n, w, ord, 1, 0, junk)
       IN /\ IF done.fatal
             THEN /\ fatal' = TRUE
                  /\ UNCHANGED <<images, heap>>
             ELSE /\ images' = [images EXCEPT ![sr] = [image EXCEPT !.pixels = NewBuf]]
                  /\ heap' = [heap EXCEPT ![NewBuf] = matrixPixels(done.out, n, 1)]
                  /\ UNCHANGED fatal
          /\ Called(name, sr, <<s, w, ord>>, done.quackLog)
  /\ UNCHANGED histogram

\* one sequence, the row of a one-row image in img
InitWindow ==
  /\ \E n \in 1..MaxWindowLen :
       /\ images = [s \in Slots |->
                     IF s = "img" THEN ImageAt(<<0, 0>>, <<n, 1>>, <<0, MaxGrey>>, 1)
                     ELSE NoImage]
       /\ \E m \in [{0} -> [(0..(n - 1)) -> 0..MaxGrey]] :
            heap = [b \in BufIds |-> IF b = 1 THEN m ELSE <<>>]
  /\ fatal = FALSE
  /\ call = NoCall
  /\ steps = 0
  /\ histogram = NoHistogram

SlideMax ==
  /\ \E w \in 0..MaxWindow : slidingWindow("slidingWindowOrd", 1, "img", w, "h")
  /\ UNCHANGED steps

SlideMin ==
  /\ \E w \in 0..MaxWindow : slidingWindow("slidingWindowOrd", 0, "img", w, "h")
  /\ UNCHANGED steps

NextWindow ==
  \/ SlideMax
  \/ SlideMin
  \/ FreeResult

SpecWindow == InitWindow /\ [][NextWindow]_vars

\* C21: on an image that is 0 except for one pixel (px, py) holding v > 0,
\* dilateIntImageRect(image, 3, 3) returns v at the pixels (x, y) of the image
\* with |x - px| <= 1 and |y - py| <= 1 and 0 at every other pixel.
C21_DilationCentred ==
  \A p \in Cells("img") :
    (/\ call.op = "dilateIntImageRect"
     /\ call.args[2] = 3
     /\ call.args[3] = 3
     /\ PixelsOf("img")[p[2]][p[1]] > 0
     /\ PixelsOf("img")[p[2]][p[1]] <= images["img"].maxRange
     /\ \A c \in Cells("img") \ {p} : PixelsOf("img")[c[2]][c[1]] = 0)
      => /\ ~fatal
         /\ \A c \in Cells("img") :
              PixelsOf("h")[c[2]][c[1]] =
                IF Abs(c[1] - p[1]) <= 1 /\ Abs(c[2] - p[2]) <= 1
                THEN PixelsOf("img")[p[2]][p[1]] ELSE 0

\* the pixels m with every value v replaced by maxValue - v
Inverted(m, maxValue) == [y \in DOMAIN m |-> [x \in DOMAIN m[y] |-> maxValue - m[y][x]]]

\* TRUE when every pixel of the image in slot s lies in 0..maxRange
PixelsFromZero(s) ==
  \A c \in Cells(s) : PixelsOf(s)[c[2]][c[1]] \in 0..images[s].maxRange

\* C22: for an image with pixels in 0..M and a kernel kw, kh >= 1,
\* erodeIntImageRect(image, kw, kh) is the inverted dilateIntImageRect of the
\* inverted image, pixel by pixel, where inverting replaces v by M - v.
C22_ErosionDual ==
  (call.op = "erodeIntImageRect" /\ PixelsFromZero("img"))
    => /\ ~fatal
       /\ \A junk \in Garbage :
            LET image == images["img"]
                width == getWidth(image.domain)
                height == getHeight(image.domain)
                dilated == dilateErodeIntImageRect(
                             image, Inverted(PixelsOf("img"), image.maxRange),
                             call.args[2], call.args[3], 1, junk)
            IN /\ ~dilated.fatal
               /\ PixelsOf("h") =
                    Inverted(matrixPixels(dilated.out, width, height), image.maxRange)

MaxOf(S) == CHOOSE v \in S : \A u \in S : u <= v

\* the pixels of the image in slot s inside the kw x kh rectangle whose last
\* column and row are those of the pixel c
Window(s, c, kw, kh) ==
  {PixelsOf(s)[d[2]][d[1]] : d \in {e \in Cells(s) : /\ c[1] - kw < e[1] /\ e[1] <= c[1]
                                                     /\ c[2] - kh < e[2] /\ e[2] <= c[2]}}

\* C24: for an image of any width W and height H and a kernel kw, kh >= 1,
\* the column pass of dilateErodeIntImageRect works on the H pixels of each
\* column, so the result at (x, y) is the maximum (dilation) or minimum
\* (erosion) of the input over the pixels (x', y') of the image with
\* x - kw < x' <= x and y - kh < y' <= y, and no access falls outside the
\* W * H pixel arrays.
C24_ColumnPass ==
  (call.op \in {"dilateIntImageRect", "erodeIntImageRect"} /\ PixelsFromZero("img"))
    => /\ ~fatal
       /\ call.ret \subseteq
            0..(getWidth(images["img"].domain) * getHeight(images["img"].domain) - 1)
       /\ \A c \in Cells("img") :
            PixelsOf("h")[c[2]][c[1]] =
              IF call.op = "dilateIntImageRect"
              THEN MaxOf(Window("img", c, call.args[2], call.args[3]))
              ELSE MinOf(Window("img", c, call.args[2], call.args[3]))

\* the elements of the sequence in img that lie in the trailing window of
\* size w ending at index i
Trailing(i, w) ==
  {PixelsOf("img")[0][j] : j \in {k \in 0..i : k > i - w}}

C26_QuackBounds ==
  call.op = "slidingWindowOrd"
    => LET w == call.args[2]
       IN IF w = 0
          THEN fatal
          ELSE /\ ~fatal
               /\ \A e \in call.ret :
                    /\ e.quack.size \in 0..w
                    /\ e.quack.start \in 0..(w - 1)
                    /\ e.quack.end \in 0..(w - 1)
                    /\ \/ e.quack.size = (e.quack.end - e.quack.start) % w
                       \/ e.quack.size = w
                    /\ e.op = "quackPushBack" => e.quack.size < e.quack.capacity
                    /\ e.op # "quackPushBack" => e.quack.size > 0

\* a call in which the queue became full, an index was dropped from its back
\* and one from its front
C26_Witness ==
  /\ call.op = "slidingWindowOrd"
  /\ call.args[2] = 2
  /\ ~fatal
  /\ \E e \in call.ret : e.op = "quackPeekFront" /\ e.quack.size = 2
  /\ \E e \in call.ret : e.op = "quackPopBack"
  /\ \E e \in call.ret : e.op = "quackPopFront"

(* ------------------------------ RgbImage ------------------------------- *)

\* An RgbImage variable holds the domain, the range and the block with its
\* three matrices red, green and blue.

flipRgbImageVertical(s) ==
  /\ ~fatal
  /\ Allocated(s)
  /\ LET height == getHeight(images[s].domain)
     IN heap' = [heap EXCEPT ![images[s].pixels] =
                   [red |-> flipColumnLoop(@.red, 0, height),
                    green |-> flipColumnLoop(@.green, 0, height),
                    blue |-> flipColumnLoop(@.blue, 0, height)]]
  /\ images' = [images EXCEPT ![s].domain = flipDomainHorizontal(@)]
  /\ UNCHANGED <<fatal, histogram>>
  /\ Called("flipRgbImageVertical", s, <<>>, 0)

\* the largest sample of a PPM file
MaxSample == 65535

\* the extension of the path handed to saveRgbImagePPMAscii: none, ppm or another
Extensions == {"none", "ppm", "pgm"}

clampSample(v) == IF v < 0 THEN 0 ELSE IF v > MaxSample THEN MaxSample ELSE v

\* the buffer saveRgbImagePPM fills: r, g, b of every pixel, row after row
ppmBuffer(channels, width, height) ==
  [k \in 0..(3 * width * height - 1) |->
     LET y == (k \div 3) \div width
         x == (k \div 3) % width
     IN clampSample(CASE k % 3 = 0 -> channels.red[y][x]
                      [] k % 3 = 1 -> channels.green[y][x]
                      [] OTHER -> channels.blue[y][x])]

\* saveImagePPMasP3 when it has written the header: the indices of buffer
\* read by the search for the largest sample, nothing written yet, about to
\* test i < height
ppmWriter(buffer, width, height) ==
  [pc |-> "row", i |-> 0, j |-> 0, c |-> 0, idx |-> 0, samples |-> 0, lines |-> 0,
   reads |-> {0} \cup {k \in DOMAIN buffer :
                         \A l \in 0..(IF k = 0 THEN 0 ELSE k - 1) : buffer[l] < MaxSample},
   width |-> width, height |-> height]

\* one sample printed from buffer[idx++] in a loop over c whose increment is i++
printSample(w, pc) ==
  [w EXCEPT !.pc = pc, !.reads = @ \cup {w.idx}, !.idx = @ + 1, !.samples = @ + 1,
            !.i = @ + 1]

\* the next test or loop body of the writing loops of saveImagePPMasP3
ppmStep(w) ==
  CASE w.pc = "row" ->
         IF w.i < w.height THEN [w EXCEPT !.c = 0, !.pc = "first"]
         ELSE [w EXCEPT !.pc = "closed"]
    [] w.pc = "first" ->
         IF w.c < 3 THEN printSample(w, "first")
         ELSE [w EXCEPT !.j = 1, !.pc = "cols"]
    [] w.pc = "cols" ->
         IF w.j < w.width THEN [w EXCEPT !.c = 0, !.pc = "rest"]
         ELSE [w EXCEPT !.lines = @ + 1, !.i = @ + 1, !.pc = "row"]
    [] w.pc = "rest" ->
         IF w.c < 3 THEN printSample(w, "rest")
         ELSE [w EXCEPT !.j = @ + 1, !.pc = "cols"]

\* saveRgbImagePPMAscii(s, path) up to the header of the file: a fatal error
\* for a path without extension, nothing at all for an extension other
\* than ppm, else the buffer is filled and the writer starts
saveRgbImagePPMAscii(s, extension) ==
  /\ ~fatal
  /\ Allocated(s)
  /\ fatal' = (extension = "none")
  /\ LET width == getWidth(images[s].domain)
         height == getHeight(images[s].domain)
     IN Called("saveRgbImagePPMAscii", s, <<extension>>,
               IF extension = "ppm"
               THEN ppmWriter(ppmBuffer(PixelsOf(s), width, height), width, height)
               ELSE 0)
  /\ UNCHANGED <<images, heap, histogram>>

\* TRUE while a call of saveRgbImagePPMAscii is writing its file
Writing == call.op = "saveRgbImagePPMAscii" /\ call.args[1] = "ppm"

\* one step of the writing loops.  A read past the end of the buffer yields
\* what the heap holds there or ends the process.
saveImagePPMasP3 ==
  /\ ~fatal
  /\ Writing
  /\ call.ret.pc \in {"row", "first", "cols", "rest"}
  /\ call.ret.idx < 3 * call.ret.width * call.ret.height + MaxOverrun
  /\ \E ended \in BOOLEAN :
       LET next == ppmStep(call.ret)
       IN /\ ended => ~(next.reads \subseteq 0..(3 * next.width * next.height - 1))
          /\ call' = [call EXCEPT !.ret = IF ended THEN [next EXCEPT !.pc = "ended"] ELSE next]
  /\ UNCHANGED <<images, heap, fatal, histogram>>

\* one RgbImage, in c, with any pixels
InitRgb ==
  /\ \E o \in Origins, e \in SmallShapes :
       /\ images = [s \in Slots |-> IF s = "c" THEN ImageAt(o, e, <<0, 1>>, 1) ELSE NoImage]
       /\ \E r \in allocIntMatrix(e[1], e[2]), g \in allocIntMatrix(e[1], e[2]),
             b \in allocIntMatrix(e[1], e[2]) :
            heap = [k \in BufIds |->
                      IF k = 1 THEN [red |-> r, green |-> g, blue |-> b] ELSE <<>>]
  /\ fatal = FALSE
  /\ call = NoCall
  /\ steps = 0
  /\ histogram = NoHistogram

FlipRgbVertical ==
  /\ ~Writing
  /\ flipRgbImageVertical("c")
  /\ UNCHANGED steps

SaveRgbAscii ==
  /\ ~Writing
  /\ \E extension \in Extensions : saveRgbImagePPMAscii("c", extension)
  /\ UNCHANGED steps

WritePpm == saveImagePPMasP3 /\ UNCHANGED steps

NextRgb ==
  \/ FlipRgbVertical
  \/ SaveRgbAscii
  \/ WritePpm

SpecRgb == InitRgb /\ [][NextRgb]_vars

\* C23: flipRgbImageVertical on an RgbImage with domain
\* [minX..maxX]x[minY..maxY] leaves the domain [minX..maxX]x[-maxY..-minY].
C23_RgbFlipDomain ==
  [][call'.op = "flipRgbImageVertical"
     => images'["c"].domain = [minX |-> images["c"].domain.minX,
                               maxX |-> images["c"].domain.maxX,
                               minY |-> -images["c"].domain.maxY,
                               maxY |-> -images["c"].domain.minY]]_vars

\* C30: the P3 writer behind saveRgbImagePPMAscii reads only the indices
\* 0..3*width*height-1 of its buffer, is never ended by a bad read, and has
\* written 3*width*height samples and height lines when it closes the file.
C30_PpmWriterBounded ==
  (call.op = "saveRgbImagePPMAscii" /\ call.args[1] = "ppm")
    => LET w == call.ret
           n == 3 * w.width * w.height
       IN /\ w.reads \subseteq 0..(n - 1)
          /\ w.pc # "ended"
          /\ w.samples <= n
          /\ w.pc = "closed" => (w.samples = n /\ w.lines = w.height)

\* the rows of the background pixels in column x of the image in img
ColumnBackground(x) == {b[2] : b \in {c \in Background("img", call.args[3]) : c[1] = x}}

\* C27: the vertical phase of the Euclidean transform hands
\* maskDistanceTransform a mask length equal to the number of offsets it
\* supplies, so every mask entry read is an entry of the arrays, and its
\* value at (x, y) is the least |y - by| over the background pixels (x, by)
\* of the column, or width + height + 1 when the column has none.
C27_VerticalPhase ==
  (call.op = "distanceTransform" /\ call.args[2] \in {"EUCLID", "SQEUCLID"})
    => /\ verticalMask.maskLength = Cardinality(DOMAIN verticalMask.maskDx)
       /\ call.ret.maskReads \subseteq DOMAIN verticalMask.maskDx
       /\ call.ret.maskReads \subseteq DOMAIN verticalMask.maskDy
       /\ \A p \in Indices("img") :
            call.ret.verticalDT[p[2]][p[1]] =
              IF ColumnBackground(p[1]) = {}
              THEN getWidth(images["img"].domain) + getHeight(images["img"].domain) + 1
              ELSE MinOf({Abs(p[2] - by) : by \in ColumnBackground(p[1])})

\* C28: in the horizontal phase of dtMeijsterRoerdinkHesselink every read
\* of s[q] or t[q] is made with 0 <= q <= width - 1: q is never -1 when
\* s[q] is read, after a pop of either scan.
C28_StackIndex ==
  (call.op = "distanceTransform" /\ call.args[2] \in {"EUCLID", "SQEUCLID"})
    => call.ret.indexed \subseteq 0..(getWidth(images["img"].domain) - 1)

\* C29: when applyLutIntImage passes its checks (minRange >= 0 and
\* maxRange <= LUTSize) on an image whose pixels lie in [minRange, maxRange],
\* every index at which it reads the LUT lies in 0..LUTSize-1.
C29_LutIndexInside ==
  (/\ call.op = "applyLutIntImage"
   /\ ~fatal
   /\ \A p \in Indices("img") :
        /\ images["img"].minRange <= PixelsOf("img")[p[2]][p[1]]
        /\ PixelsOf("img")[p[2]][p[1]] <= images["img"].maxRange)
    => call.ret \subseteq 0..(call.args[3] - 1)

====
